---- MODULE Spec2Model ----
(***************************************************************************)
(* The context-aware SQL completion engine of gocli: the lexer, the        *)
(* context classifier, the suggestion generator and the completer object   *)
(* that a REPL drives per keystroke while a background goroutine replaces  *)
(* the metadata snapshot.                                                  *)
(*                                                                         *)
(* Go strings are TLA+ strings; a character is a string of length 1.       *)
(* Go slices are sequences; a nil slice is the empty sequence.             *)
(***************************************************************************)
EXTENDS Integers, Sequences, FiniteSets, TLC

(***************************************************************************)
(* Package strings / unicode, restricted to the ASCII alphabet the model   *)
(* types.                                                                  *)
(***************************************************************************)
LowerLetters == "abcdefghijklmnopqrstuvwxyz"
UpperLetters == "ABCDEFGHIJKLMNOPQRSTUVWXYZ"
DigitChars == "0123456789"

\* The bytes above 7F that unicode.IsLetter takes for a letter when a byte is
\* converted to a rune on its own, rune(text[i]), each written as the
\* character of that code point.
ByteLetters == "ªµºÀÁÂÃÄÅÆÇÈÉÊËÌÍÎÏÐÑÒÓÔÕÖØÙÚÛÜÝÞßàáâãäåæçèéêëìíîïðñòóôõöøùúûüýþÿ"

CharAt(s, i) == SubSeq(s, i, i)

CharSet(s) == {CharAt(s, i) : i \in 1..Len(s)}

LowerSet == CharSet(LowerLetters)
UpperSet == CharSet(UpperLetters)
DigitSet == CharSet(DigitChars)
ByteLetterSet == CharSet(ByteLetters)

UpperOf == [c \in LowerSet |->
              CharAt(UpperLetters, CHOOSE i \in 1..Len(LowerLetters) : CharAt(LowerLetters, i) = c)]
LowerOf == [c \in UpperSet |->
              CharAt(LowerLetters, CHOOSE i \in 1..Len(UpperLetters) : CharAt(UpperLetters, i) = c)]

IsLetter(r) == r \in LowerSet \/ r \in UpperSet \/ r \in ByteLetterSet
IsDigit(r) == r \in DigitSet
IsSpace(r) == r \in {" ", "\t", "\n", "\r", "\f"}

RECURSIVE ToUpper(_)
ToUpper(s) ==
    IF s = "" THEN ""
    ELSE (IF Head(s) \in LowerSet THEN UpperOf[Head(s)] ELSE Head(s)) \o ToUpper(Tail(s))

RECURSIVE ToLower(_)
ToLower(s) ==
    IF s = "" THEN ""
    ELSE (IF Head(s) \in UpperSet THEN LowerOf[Head(s)] ELSE Head(s)) \o ToLower(Tail(s))

HasPrefix(s, p) == Len(p) <= Len(s) /\ SubSeq(s, 1, Len(p)) = p
HasSuffix(s, p) == Len(p) <= Len(s) /\ SubSeq(s, Len(s) - Len(p) + 1, Len(s)) = p
Contains(s, sub) == \E i \in 0..(Len(s) - Len(sub)) : SubSeq(s, i + 1, i + Len(sub)) = sub

RECURSIVE TrimLeft(_)
TrimLeft(s) == IF s /= "" /\ IsSpace(Head(s)) THEN TrimLeft(Tail(s)) ELSE s

RECURSIVE TrimRight(_)
TrimRight(s) ==
    IF s /= "" /\ IsSpace(CharAt(s, Len(s))) THEN TrimRight(SubSeq(s, 1, Len(s) - 1)) ELSE s

TrimSpace(s) == TrimRight(TrimLeft(s))

\* strings.LastIndex(s, "."): 0-based index of the last dot, -1 when there is none.
LastIndexDot(s) ==
    IF \E i \in 1..Len(s) : CharAt(s, i) = "."
    THEN (CHOOSE i \in 1..Len(s) :
             CharAt(s, i) = "." /\ \A j \in (i + 1)..Len(s) : CharAt(s, j) /= ".") - 1
    ELSE -1

\* strings.Split(s, "."): never empty, Split("", ".") is [""].
RECURSIVE SplitDot(_)
SplitDot(s) ==
    LET d == LastIndexDot(s)
    IN  IF d < 0 THEN <<s>>
        ELSE Append(SplitDot(SubSeq(s, 1, d)), SubSeq(s, d + 2, Len(s)))

(***************************************************************************)
(* SQL keyword lists.                                                      *)
(***************************************************************************)
selectKeywords == <<
    "DISTINCT", "ALL", "AS", "FROM", "WHERE", "GROUP", "BY",
    "HAVING", "ORDER", "LIMIT", "OFFSET", "UNION", "INTERSECT",
    "EXCEPT", "CASE", "WHEN", "THEN", "ELSE", "END", "AND",
    "OR", "NOT", "IN", "EXISTS", "BETWEEN", "LIKE", "ILIKE",
    "IS", "NULL", "TRUE", "FALSE", "ASC", "DESC", "NULLS",
    "FIRST", "LAST", "OVER", "PARTITION", "ROWS", "RANGE",
    "UNBOUNDED", "PRECEDING", "FOLLOWING", "CURRENT", "ROW",
    "FILTER", "WITHIN", "LATERAL", "CROSS", "NATURAL" >>

fromKeywords == <<
    "JOIN", "INNER", "LEFT", "RIGHT", "FULL", "OUTER", "CROSS",
    "NATURAL", "ON", "USING", "WHERE", "GROUP", "BY", "HAVING",
    "ORDER", "LIMIT", "OFFSET", "AS", "UNION", "INTERSECT",
    "EXCEPT" >>

whereKeywords == <<
    "AND", "OR", "NOT", "IN", "EXISTS", "BETWEEN", "LIKE",
    "ILIKE", "IS", "NULL", "TRUE", "FALSE", "ANY", "ALL",
    "SOME", "GROUP", "BY", "HAVING", "ORDER", "LIMIT", "OFFSET" >>

ddlKeywords == <<
    "TABLE", "INDEX", "VIEW", "MATERIALIZED", "SEQUENCE",
    "SCHEMA", "DATABASE", "FUNCTION", "PROCEDURE", "TRIGGER",
    "TYPE", "DOMAIN", "EXTENSION", "IF", "EXISTS", "NOT",
    "CASCADE", "RESTRICT", "COLUMN", "CONSTRAINT", "PRIMARY",
    "KEY", "UNIQUE", "REFERENCES", "FOREIGN", "CHECK", "DEFAULT" >>

allKeywords == <<
    "SELECT", "INSERT", "UPDATE", "DELETE", "CREATE", "ALTER",
    "DROP", "TRUNCATE", "FROM", "WHERE", "JOIN", "INNER", "LEFT",
    "RIGHT", "FULL", "OUTER", "CROSS", "NATURAL", "ON", "USING",
    "GROUP", "BY", "HAVING", "ORDER", "LIMIT", "OFFSET", "AS",
    "DISTINCT", "ALL", "UNION", "INTERSECT", "EXCEPT", "AND",
    "OR", "NOT", "IN", "EXISTS", "BETWEEN", "LIKE", "ILIKE",
    "IS", "NULL", "TRUE", "FALSE", "CASE", "WHEN", "THEN",
    "ELSE", "END", "ASC", "DESC", "NULLS", "FIRST", "LAST",
    "INTO", "VALUES", "SET", "DEFAULT", "RETURNING", "WITH",
    "RECURSIVE", "TABLE", "INDEX", "VIEW", "MATERIALIZED",
    "SEQUENCE", "SCHEMA", "DATABASE", "FUNCTION", "PROCEDURE",
    "TRIGGER", "TYPE", "DOMAIN", "EXTENSION", "IF", "CASCADE",
    "RESTRICT", "COLUMN", "CONSTRAINT", "PRIMARY", "KEY",
    "UNIQUE", "REFERENCES", "FOREIGN", "CHECK", "BEGIN",
    "COMMIT", "ROLLBACK", "SAVEPOINT", "GRANT", "REVOKE",
    "EXPLAIN", "ANALYZE", "VERBOSE", "COSTS", "BUFFERS",
    "FORMAT", "COPY", "TO", "STDIN", "STDOUT", "DELIMITER",
    "CSV", "HEADER", "QUOTE", "ESCAPE", "FORCE", "VACUUM",
    "REINDEX", "CLUSTER", "COMMENT", "OVER", "PARTITION",
    "ROWS", "RANGE", "UNBOUNDED", "PRECEDING", "FOLLOWING",
    "CURRENT", "ROW", "FILTER", "WITHIN", "LATERAL",
    "FETCH", "NEXT", "PRIOR", "ABSOLUTE", "RELATIVE",
    "FORWARD", "BACKWARD", "DECLARE", "CURSOR", "FOR",
    "CLOSE", "MOVE" >>

Range(seq) == {seq[i] : i \in 1..Len(seq)}

allKeywordSet == Range(allKeywords)

isKeyword(s) == ToUpper(s) \in allKeywordSet

(***************************************************************************)
(* Current-word extraction.                                                *)
(***************************************************************************)
IsWordChar(r) == IsLetter(r) \/ IsDigit(r) \/ r = "_" \/ r = "." \/ r = "\\" \/ r = "#"

\* The loop of lastWord: the index i at which the backward walk stops.
RECURSIVE wordStart(_, _)
wordStart(text, i) ==
    IF i >= 1 /\ IsWordChar(CharAt(text, i)) THEN wordStart(text, i - 1) ELSE i

lastWord(text) ==
    IF text = "" THEN ""
    ELSE IF CharAt(text, Len(text)) \in {" ", "\t", "\n"} THEN ""
    ELSE SubSeq(text, wordStart(text, Len(text)) + 1, Len(text))

(***************************************************************************)
(* Lexer.                                                                  *)
(***************************************************************************)
flush(tokens, current) ==
    IF Len(current) > 0 THEN Append(tokens, ToUpper(current)) ELSE tokens

\* tokenizeStep without the operator branch: an operator is a character of
\* the word in progress.
tokenizeStep_OperatorsInWords(st, r) ==
    IF st.inQuote
    THEN [st EXCEPT !.inQuote = (r /= st.quoteChar), !.current = st.current \o r]
    ELSE IF r = "'" \/ r = "\""
    THEN [st EXCEPT !.inQuote = TRUE, !.quoteChar = r, !.current = st.current \o r]
    ELSE IF IsSpace(r) \/ r = "," \/ r = "(" \/ r = ")" \/ r = ";"
    THEN [st EXCEPT !.tokens = flush(st.tokens, st.current), !.current = ""]
    ELSE [st EXCEPT !.current = st.current \o r]

\* tokenizeStep with whitespace taken for a character of the word in progress.
tokenizeStep_BlanksInWords(st, r) ==
    IF st.inQuote
    THEN [st EXCEPT !.inQuote = (r /= st.quoteChar), !.current = st.current \o r]
    ELSE IF r = "'" \/ r = "\""
    THEN [st EXCEPT !.inQuote = TRUE, !.quoteChar = r, !.current = st.current \o r]
    ELSE IF r = "," \/ r = "(" \/ r = ")" \/ r = ";"
    THEN [st EXCEPT !.tokens = flush(st.tokens, st.current), !.current = ""]
    ELSE IF r = "=" \/ r = "<" \/ r = ">" \/ r = "!"
    THEN [st EXCEPT !.tokens = Append(flush(st.tokens, st.current), r), !.current = ""]
    ELSE [st EXCEPT !.current = st.current \o r]

\* tokenizeStep without quote state: a quote is a character like any other.
tokenizeStep_QuotesAreLetters(st, r) ==
    IF IsSpace(r) \/ r = "," \/ r = "(" \/ r = ")" \/ r = ";"
    THEN [st EXCEPT !.tokens = flush(st.tokens, st.current), !.current = ""]
    ELSE IF r = "=" \/ r = "<" \/ r = ">" \/ r = "!"
    THEN [st EXCEPT !.tokens = Append(flush(st.tokens, st.current), r), !.current = ""]
    ELSE [st EXCEPT !.current = st.current \o r]

\* One iteration of tokenize's loop over the runes of sql: st holds the loop's
\* four locals (tokens, current, inQuote, quoteChar) and r is the rune.
tokenizeStep(st, r) ==
    IF st.inQuote
    THEN [st EXCEPT !.inQuote = (r /= st.quoteChar), !.current = st.current \o r]
    ELSE IF r = "'" \/ r = "\""
    THEN [st EXCEPT !.inQuote = TRUE, !.quoteChar = r, !.current = st.current \o r]
    ELSE IF IsSpace(r) \/ r = "," \/ r = "(" \/ r = ")" \/ r = ";"
    THEN [st EXCEPT !.tokens = flush(st.tokens, st.current), !.current = ""]
    ELSE IF r = "=" \/ r = "<" \/ r = ">" \/ r = "!"
    THEN [st EXCEPT !.tokens = Append(flush(st.tokens, st.current), r), !.current = ""]
    ELSE [st EXCEPT !.current = st.current \o r]

\* The loop itself, runes lo..hi in order. The range is halved so that the
\* evaluation depth stays logarithmic in the length of sql; the left half is
\* evaluated before the right half starts from its final locals.
RECURSIVE tokenizeLoop(_, _, _, _)
tokenizeLoop(sql, lo, hi, st) ==
    IF lo > hi THEN st
    ELSE IF lo = hi THEN tokenizeStep(st, CharAt(sql, lo))
    ELSE LET mid == (lo + hi) \div 2
             left == tokenizeLoop(sql, lo, mid, st)
         IN  IF left.inQuote \in BOOLEAN
             THEN tokenizeLoop(sql, mid + 1, hi, left)
             ELSE left

tokenize(sql) ==
    LET st == tokenizeLoop(sql, 1, Len(sql),
                           [tokens |-> <<>>, current |-> "", inQuote |-> FALSE, quoteChar |-> ""])
    IN  flush(st.tokens, st.current)

(***************************************************************************)
(* Table references.                                                       *)
(***************************************************************************)
\* The alias extractTableRefs gives the table named at tokens[i+1] (1-based i).
aliasAt(tokens, i) ==
    IF i + 2 <= Len(tokens)
    THEN LET next == tokens[i + 2]
         IN  IF next = "AS" /\ i + 3 <= Len(tokens) THEN ToLower(tokens[i + 3])
             ELSE IF ~isKeyword(next) /\ next /= "," /\ next /= "ON"
                     /\ next /= "WHERE" /\ next /= "SET"
             THEN ToLower(next)
             ELSE ""
    ELSE ""

RECURSIVE extractFrom(_, _, _)
extractFrom(tokens, i, refs) ==
    IF i > Len(tokens) THEN refs
    ELSE IF tokens[i] \in {"FROM", "JOIN", "UPDATE", "INTO"}
            /\ i + 1 <= Len(tokens) /\ ~isKeyword(tokens[i + 1])
    THEN extractFrom(tokens, i + 1,
                     Append(refs, [Name |-> ToLower(tokens[i + 1]), Alias |-> aliasAt(tokens, i)]))
    ELSE extractFrom(tokens, i + 1, refs)

\* A slip: the names are kept as the lexer upper-cased them.
RECURSIVE extractRaw(_, _, _)
extractRaw(tokens, i, refs) ==
    IF i > Len(tokens) THEN refs
    ELSE IF tokens[i] \in {"FROM", "JOIN", "UPDATE", "INTO"}
            /\ i + 1 <= Len(tokens) /\ ~isKeyword(tokens[i + 1])
    THEN extractRaw(tokens, i + 1,
                    Append(refs, [Name |-> tokens[i + 1], Alias |-> aliasAt(tokens, i)]))
    ELSE extractRaw(tokens, i + 1, refs)

extractTableRefs_NamesNotLowered(tokens) == extractRaw(tokens, 1, <<>>)

extractTableRefs(tokens) == extractFrom(tokens, 1, <<>>)

RECURSIVE resolveFrom(_, _, _)
resolveFrom(alias, refs, k) ==
    IF k > Len(refs) THEN alias
    ELSE IF refs[k].Alias = alias THEN refs[k].Name
    ELSE IF refs[k].Name = alias THEN refs[k].Name
    ELSE resolveFrom(alias, refs, k + 1)

\* Another reading of the lookup: every alias is tried before any name.
resolveTableName_AliasesFirst(alias, refs) ==
    IF \E k \in 1..Len(refs) : refs[k].Alias = alias
    THEN refs[CHOOSE k \in 1..Len(refs) :
                 refs[k].Alias = alias /\ \A j \in 1..(k - 1) : refs[j].Alias /= alias].Name
    ELSE alias

resolveTableName(alias, refs) == resolveFrom(alias, refs, 1)

(***************************************************************************)
(* Context classifier.                                                     *)
(***************************************************************************)
ClauseFlags == {"InSelect", "InFrom", "InJoin", "InWhere", "InOrderBy", "InGroupBy",
                "InHaving", "InInsert", "InUpdate", "InSet", "InOn", "InUsing",
                "InCreate", "InAlter", "InDrop"}

\* SQLContext{}: the zero value.
ZeroContext ==
    [InSelect |-> FALSE, InFrom |-> FALSE, InJoin |-> FALSE, InWhere |-> FALSE,
     InOrderBy |-> FALSE, InGroupBy |-> FALSE, InHaving |-> FALSE, InInsert |-> FALSE,
     InUpdate |-> FALSE, InSet |-> FALSE, InOn |-> FALSE, InUsing |-> FALSE,
     InCreate |-> FALSE, InAlter |-> FALSE, InDrop |-> FALSE,
     AfterDot |-> FALSE, BeforeDot |-> "", Tables |-> <<>>, IsBackslash |-> FALSE]

\* The switch of analyzeContext's backward loop at index i (1-based): the flag
\* the case sets before returning, or "" when the loop goes on to i-1.
clauseCase(tokens, i) ==
    LET tok == tokens[i]
    IN  IF tok = "SELECT" THEN "InSelect"
        ELSE IF tok = "FROM" THEN "InFrom"
        ELSE IF tok \in {"JOIN", "INNER", "LEFT", "RIGHT", "CROSS", "FULL", "NATURAL"}
        THEN (IF tok = "JOIN" \/ (i + 1 <= Len(tokens) /\ tokens[i + 1] = "JOIN")
              THEN "InJoin" ELSE "")
        ELSE IF tok = "WHERE" THEN "InWhere"
        ELSE IF tok = "ORDER"
        THEN (IF i + 1 <= Len(tokens) /\ tokens[i + 1] = "BY" THEN "InOrderBy" ELSE "")
        ELSE IF tok = "GROUP"
        THEN (IF i + 1 <= Len(tokens) /\ tokens[i + 1] = "BY" THEN "InGroupBy" ELSE "")
        ELSE IF tok = "HAVING" THEN "InHaving"
        ELSE IF tok \in {"INSERT", "INTO"} THEN "InInsert"
        ELSE IF tok = "UPDATE" THEN "InUpdate"
        ELSE IF tok = "SET" THEN "InSet"
        ELSE IF tok = "ON" THEN "InOn"
        ELSE IF tok = "USING" THEN "InUsing"
        ELSE IF tok = "CREATE" THEN "InCreate"
        ELSE IF tok = "ALTER" THEN "InAlter"
        ELSE IF tok = "DROP" THEN "InDrop"
        ELSE ""

\* A slip in the direction of the scan: the first clause keyword wins.
RECURSIVE clauseScanForward(_, _)
clauseScanForward(tokens, i) ==
    IF i > Len(tokens) THEN ""
    ELSE IF clauseCase(tokens, i) /= "" THEN clauseCase(tokens, i)
    ELSE clauseScanForward(tokens, i + 1)

clauseScan_FirstWins(tokens, i) == clauseScanForward(tokens, 1)

\* The backward loop, from index i down to 1.
RECURSIVE clauseScan(_, _)
clauseScan(tokens, i) ==
    IF i < 1 THEN ""
    ELSE IF clauseCase(tokens, i) /= "" THEN clauseCase(tokens, i)
    ELSE clauseScan(tokens, i - 1)

\* A slip in the index: the first segment of the dotted word, not the last.
dotContext_FirstSegment(ctx, text) ==
    IF HasSuffix(text, ".")
    THEN LET parts == SplitDot(lastWord(SubSeq(text, 1, Len(text) - 1)))
         IN  IF Len(parts) > 0
             THEN [ctx EXCEPT !.AfterDot = TRUE, !.BeforeDot = ToLower(parts[1])]
             ELSE ctx
    ELSE ctx

\* The dot check of analyzeContext on the trimmed text.
dotContext(ctx, text) ==
    IF HasSuffix(text, ".")
    THEN LET parts == SplitDot(lastWord(SubSeq(text, 1, Len(text) - 1)))
         IN  IF Len(parts) > 0
             THEN [ctx EXCEPT !.AfterDot = TRUE, !.BeforeDot = ToLower(parts[Len(parts)])]
             ELSE ctx
    ELSE ctx

\* A slip: IsBackslash is set but the function goes on to classify the text.
analyzeContext_BackslashFallsThrough(rawText) ==
    LET text == TrimSpace(rawText)
    IN  IF text = "" THEN ZeroContext
        ELSE LET tokens == tokenize(text)
                 ctx == [dotContext(ZeroContext, text) EXCEPT
                            !.Tables = extractTableRefs(tokens),
                            !.IsBackslash = HasPrefix(text, "\\")]
                 flag == clauseScan(tokens, Len(tokens))
             IN  IF flag = "" THEN ctx ELSE [ctx EXCEPT ![flag] = TRUE]

analyzeContext(rawText) ==
    LET text == TrimSpace(rawText)
    IN  IF text = "" THEN ZeroContext
        ELSE IF HasPrefix(text, "\\") THEN [ZeroContext EXCEPT !.IsBackslash = TRUE]
        ELSE LET tokens == tokenize(text)
                 ctx == [dotContext(ZeroContext, text) EXCEPT !.Tables = extractTableRefs(tokens)]
                 flag == clauseScan(tokens, Len(tokens))
             IN  IF flag = "" THEN ctx ELSE [ctx EXCEPT ![flag] = TRUE]

(***************************************************************************)
(* Fuzzy matcher.                                                          *)
(***************************************************************************)
\* The subsequence loop of fuzzyMatch (i over the candidate, j over the input,
\* both 1-based here): the final j.
RECURSIVE subseqLoop(_, _, _, _)
subseqLoop(cand, inp, i, j) ==
    IF i <= Len(cand) /\ j <= Len(inp)
    THEN subseqLoop(cand, inp, i + 1, IF CharAt(cand, i) = CharAt(inp, j) THEN j + 1 ELSE j)
    ELSE j

\* A slip: the subsequence tier is forgotten.
fuzzyMatch_NoSubsequenceTier(input, candidate) ==
    IF input = "" THEN TRUE
    ELSE LET inputLower == ToLower(input)
             candidateLower == ToLower(candidate)
         IN  Contains(candidateLower, inputLower)

fuzzyMatch(input, candidate) ==
    IF input = "" THEN TRUE
    ELSE LET inputLower == ToLower(input)
             candidateLower == ToLower(candidate)
         IN  IF HasPrefix(candidateLower, inputLower) THEN TRUE
             ELSE IF Contains(candidateLower, inputLower) THEN TRUE
             ELSE subseqLoop(candidateLower, inputLower, 1, 1) = Len(inputLower) + 1

FuzzyScore(input, candidate) ==
    IF input = "" THEN 100
    ELSE LET inputLower == ToLower(input)
             candidateLower == ToLower(candidate)
         IN  IF candidateLower = inputLower THEN 0
             ELSE IF HasPrefix(candidateLower, inputLower) THEN 1
             ELSE IF Contains(candidateLower, inputLower) THEN 2
             ELSE 3

(***************************************************************************)
(* Suggestion generator. A Completer c is the record of its three fields   *)
(* [meta, smart, keywordCasing]; meta is the Metadata the pointer refers   *)
(* to.                                                                     *)
(***************************************************************************)
Suggestion(text, type, description) ==
    [Text |-> text, DisplayText |-> "", Type |-> type, Description |-> description]

\* for i, x := range list { if fuzzyMatch(word, key(x)) { s = append(s, mk(x)) } }
\* with keys[i] the key of the i-th element and made[i] the suggestion made of it.
filterMap(word, keys, made) ==
    LET matches(i) == fuzzyMatch(word, keys[i])
        kept == SelectSeq([i \in 1..Len(keys) |-> i], matches)
    IN  [k \in 1..Len(kept) |-> made[kept[k]]]

\* caseKeyword with an "auto" that never looks at the word typed.
caseKeyword_AutoIgnoresInput(c, kw, input) ==
    IF c.keywordCasing = "upper" THEN ToUpper(kw)
    ELSE IF c.keywordCasing = "lower" THEN ToLower(kw)
    ELSE ToUpper(kw)

caseKeyword(c, kw, input) ==
    IF c.keywordCasing = "upper" THEN ToUpper(kw)
    ELSE IF c.keywordCasing = "lower" THEN ToLower(kw)
    ELSE IF input = "" THEN ToUpper(kw)
    ELSE IF input = ToUpper(input) THEN ToUpper(kw)
    ELSE ToLower(kw)

keywordSuggestions(c, word, keywords) ==
    filterMap(word, keywords,
              [i \in 1..Len(keywords) |->
                  Suggestion(caseKeyword(c, keywords[i], word), "keyword", "keyword")])

tableSuggestions(c, word) ==
    LET list == c.meta.Tables
    IN  filterMap(word, list, [i \in 1..Len(list) |-> Suggestion(list[i], "table", "table")])

viewSuggestions(c, word) ==
    LET list == c.meta.Views
    IN  filterMap(word, list, [i \in 1..Len(list) |-> Suggestion(list[i], "view", "view")])

\* functionSuggestions without the filter.
functionSuggestions_Unfiltered(c, word) ==
    LET list == c.meta.Functions
    IN  [i \in 1..Len(list) |-> Suggestion(list[i] \o "()", "function", "function")]

functionSuggestions(c, word) ==
    LET list == c.meta.Functions
    IN  filterMap(word, list,
                  [i \in 1..Len(list) |-> Suggestion(list[i] \o "()", "function", "function")])

schemaSuggestions(c, word) ==
    LET list == c.meta.Schemas
    IN  filterMap(word, list, [i \in 1..Len(list) |-> Suggestion(list[i], "schema", "schema")])

datatypeSuggestions(c, word) ==
    LET list == c.meta.Datatypes
    IN  filterMap(word, list, [i \in 1..Len(list) |-> Suggestion(list[i], "datatype", "type")])

specialSuggestions(c, word) ==
    LET list == c.meta.Specials
    IN  filterMap(word, [i \in 1..Len(list) |-> list[i].Name],
                  [i \in 1..Len(list) |->
                      Suggestion(list[i].Name, "special", list[i].Description)])

favoriteSuggestions(c, word) ==
    LET list == c.meta.Favorites
    IN  filterMap(word, list, [i \in 1..Len(list) |-> Suggestion(list[i], "favorite", "")])

\* The columns of one table that match word, described by that table; nothing
\* when the table is no key of meta.Columns.
columnsOf(c, tableName, word) ==
    IF tableName \in DOMAIN c.meta.Columns
    THEN LET cols == c.meta.Columns[tableName]
         IN  filterMap(word, cols,
                       [i \in 1..Len(cols) |-> Suggestion(cols[i], "column", tableName)])
    ELSE <<>>

\* Go ranges over a map in an order that is not specified: order is the
\* sequence of the keys of meta.Columns as this range happens to visit them.
RECURSIVE columnsInOrder(_, _, _)
columnsInOrder(c, word, order) ==
    IF order = <<>> THEN <<>>
    ELSE columnsOf(c, Head(order), word) \o columnsInOrder(c, word, Tail(order))

columnSuggestionsAll(c, word, order) == columnsInOrder(c, word, order)

RECURSIVE columnsOfRefs(_, _, _)
columnsOfRefs(c, refs, word) ==
    IF refs = <<>> THEN <<>>
    ELSE columnsOf(c, Head(refs).Name, word) \o columnsOfRefs(c, Tail(refs), word)

columnSuggestions(c, ctx, word, order) ==
    LET s == IF Len(ctx.Tables) > 0 THEN columnsOfRefs(c, ctx.Tables, word) ELSE <<>>
    IN  IF Len(s) = 0 THEN columnSuggestionsAll(c, word, order) ELSE s

allCompletions(c, word, order) ==
    keywordSuggestions(c, word, allKeywords)
    \o tableSuggestions(c, word)
    \o viewSuggestions(c, word)
    \o columnSuggestionsAll(c, word, order)
    \o functionSuggestions(c, word)
    \o schemaSuggestions(c, word)
    \o datatypeSuggestions(c, word)
    \o specialSuggestions(c, word)
    \o favoriteSuggestions(c, word)

\* The switch of contextCompletions over the clause flags.
clauseCompletions(c, ctx, word, order) ==
    IF ctx.InSelect
    THEN keywordSuggestions(c, word, selectKeywords) \o functionSuggestions(c, word)
         \o tableSuggestions(c, word) \o columnSuggestions(c, ctx, word, order)
    ELSE IF ctx.InFrom \/ ctx.InJoin
    THEN keywordSuggestions(c, word, fromKeywords) \o tableSuggestions(c, word)
         \o viewSuggestions(c, word) \o schemaSuggestions(c, word)
    ELSE IF ctx.InWhere \/ ctx.InHaving \/ ctx.InOn
    THEN keywordSuggestions(c, word, whereKeywords) \o columnSuggestions(c, ctx, word, order)
         \o functionSuggestions(c, word)
    ELSE IF ctx.InOrderBy \/ ctx.InGroupBy
    THEN columnSuggestions(c, ctx, word, order)
    ELSE IF ctx.InInsert
    THEN tableSuggestions(c, word) \o columnSuggestions(c, ctx, word, order)
    ELSE IF ctx.InUpdate
    THEN tableSuggestions(c, word)
    ELSE IF ctx.InSet
    THEN columnSuggestions(c, ctx, word, order)
    ELSE IF ctx.InCreate \/ ctx.InAlter \/ ctx.InDrop
    THEN keywordSuggestions(c, word, ddlKeywords) \o tableSuggestions(c, word)
         \o schemaSuggestions(c, word) \o datatypeSuggestions(c, word)
    ELSE allCompletions(c, word, order)

\* After a dot: the columns of the table or alias before it.
dotCompletions(c, ctx, word) ==
    columnsOf(c, resolveTableName(ctx.BeforeDot, ctx.Tables), word)

\* A slip in the order of the checks: the clause switch is tried before the dot.
contextCompletions_ClauseBeforeDot(c, ctx, word, order) ==
    IF ctx.IsBackslash THEN specialSuggestions(c, word)
    ELSE IF \E f \in ClauseFlags : ctx[f]
    THEN clauseCompletions(c, ctx, word, order)
    ELSE IF ctx.AfterDot THEN dotCompletions(c, ctx, word)
    ELSE allCompletions(c, word, order)

\* A slip: the clause is ignored and every category is offered.
contextCompletions_NoClauseFilter(c, ctx, word, order) ==
    IF ctx.IsBackslash THEN specialSuggestions(c, word)
    ELSE IF ctx.AfterDot THEN dotCompletions(c, ctx, word)
    ELSE allCompletions(c, word, order)

contextCompletions(c, ctx, word, order) ==
    IF ctx.IsBackslash THEN specialSuggestions(c, word)
    ELSE IF ctx.AfterDot THEN dotCompletions(c, ctx, word)
    ELSE clauseCompletions(c, ctx, word, order)

\* What a call returns: a suggestion list, or a run-time panic.
Returned(suggestions) == [panic |-> FALSE, suggestions |-> suggestions]
Panicked == [panic |-> TRUE, suggestions |-> <<>>]

\* A Complete that cuts the word at its last dot in every context.
smartWord_AlwaysCuts(ctx, word) ==
    IF LastIndexDot(word) >= 0
    THEN SubSeq(word, LastIndexDot(word) + 2, Len(word))
    ELSE word

\* The word contextCompletions filters by in smart mode.
smartWord(ctx, word) ==
    IF ctx.AfterDot /\ LastIndexDot(word) >= 0
    THEN SubSeq(word, LastIndexDot(word) + 2, Len(word))
    ELSE word

\* text[:cursorPos] panics when cursorPos is negative (slice bounds out of range).
Complete(c, text, cursorPos, order) ==
    LET pos == IF cursorPos > Len(text) THEN Len(text) ELSE cursorPos
    IN  IF pos < 0 THEN Panicked
        ELSE LET textBefore == SubSeq(text, 1, pos)
                 word == lastWord(textBefore)
             IN  IF ~c.smart THEN Returned(allCompletions(c, word, order))
                 ELSE LET ctx == analyzeContext(textBefore)
                      IN  Returned(contextCompletions(c, ctx, smartWord(ctx, word), order))

(***************************************************************************)
(* Metadata snapshots. NewMetadata() is the empty snapshot an App starts   *)
(* with; the two others are what a refresh of a small database installs.   *)
(***************************************************************************)
NewMetadata ==
    [Tables |-> <<>>, Views |-> <<>>, Columns |-> <<>>, Functions |-> <<>>,
     Schemas |-> <<>>, Databases |-> <<>>, Datatypes |-> <<>>, Specials |-> <<>>,
     Favorites |-> <<>>]

MetaA ==
    [Tables |-> <<"users", "orders">>,
     Views |-> <<"active_users">>,
     Columns |-> ("users" :> <<"id", "name">> @@ "orders" :> <<"id", "user_id">>),
     Functions |-> <<"count", "now">>,
     Schemas |-> <<"public">>,
     Databases |-> <<"mydb">>,
     Datatypes |-> <<"integer", "text">>,
     Specials |-> <<[Name |-> "\\dt", Description |-> "List tables"],
                    [Name |-> "\\q", Description |-> "Quit"]>>,
     Favorites |-> <<"daily_report">>]

MetaB ==
    [Tables |-> <<"products">>,
     Views |-> <<"order_summary">>,
     Columns |-> ("products" :> <<"sku", "price">>),
     Functions |-> <<"sum">>,
     Schemas |-> <<"billing">>,
     Databases |-> <<"testdb">>,
     Datatypes |-> <<"uuid">>,
     Specials |-> <<[Name |-> "\\dv", Description |-> "List views"]>>,
     Favorites |-> <<"top_products">>]

Snapshots == {NewMetadata, MetaA, MetaB}

Casings == {"upper", "lower", "auto"}

\* The orders in which a range over the map cols can visit its keys.
MapOrders(cols) ==
    LET keys == DOMAIN cols
    IN  {o \in [1..Cardinality(keys) -> keys] : \A i, j \in DOMAIN o : i /= j => o[i] /= o[j]}

(***************************************************************************)
(* Inputs. A text is what the REPL hands over: pieces typed one after the  *)
(* other.                                                                  *)
(***************************************************************************)
RECURSIVE Concat(_)
Concat(pieces) == IF pieces = <<>> THEN "" ELSE Head(pieces) \o Concat(Tail(pieces))

\* Every text of at most n pieces of V.
Typed(V, n) == {Concat(ps) : ps \in UNION {[1..k -> V] : k \in 0..n}}

MaxKeys == 2

Phrases == {"SELECT ", "sel", "SEL", "FROM users ", "WHERE an", "users.", "\\d", "'"}

\* The texts of at most n phrases.
ReplTexts(n) == Typed(Phrases, n)

\* Cursor positions the caller passes for a text: its ends, one before and
\* one past each end.
Cursors(t) == {-1, 0, Len(t) - 1, Len(t), Len(t) + 1}

(***************************************************************************)
(* State. The Completer's three fields, and the operation the caller made  *)
(* last with what it returned; NoCall once the caller has taken the        *)
(* return value.                                                           *)
(***************************************************************************)
VARIABLES meta, smart, keywordCasing, call, result

vars == <<meta, smart, keywordCasing, call, result>>

NoCall == [op |-> "none"]
NoResult == [none |-> TRUE]

\* The receiver as the record the suggestion generator reads.
self == [meta |-> meta, smart |-> smart, keywordCasing |-> keywordCasing]

\* NewCompleter(meta, smart)
Init ==
    /\ meta \in Snapshots
    /\ smart \in BOOLEAN
    /\ keywordCasing = "auto"
    /\ call = NoCall
    /\ result = NoResult

Idle == call = NoCall

\* A call of Complete is in progress (SpecConc runs it helper by helper).
Completing == call.op = "Completing"

\* A call of Watch is in progress (SpecWatch runs it step by step).
Watching == call.op = "Watching"

SetKeywordCasing ==
    /\ Idle
    /\ \E casing \in Casings :
          /\ keywordCasing' = casing
          /\ call' = [op |-> "SetKeywordCasing", casing |-> casing]
    /\ result' = NoResult
    /\ UNCHANGED <<meta, smart>>

SetSmart ==
    /\ Idle
    /\ \E b \in BOOLEAN :
          /\ smart' = b
          /\ call' = [op |-> "SetSmart", smart |-> b]
    /\ result' = NoResult
    /\ UNCHANGED <<meta, keywordCasing>>

\* UpdateMetadata that leaves the old snapshot in place.
UpdateMetadata_KeepsOldSnapshot ==
    /\ Idle
    /\ \E m \in Snapshots : call' = [op |-> "UpdateMetadata", meta |-> m]
    /\ result' = NoResult
    /\ UNCHANGED <<meta, smart, keywordCasing>>

UpdateMetadata ==
    /\ Idle
    /\ \E m \in Snapshots :
          /\ meta' = m
          /\ call' = [op |-> "UpdateMetadata", meta |-> m]
    /\ result' = NoResult
    /\ UNCHANGED <<smart, keywordCasing>>

\* One whole call of Complete, with no other goroutine at work.
CompleteCall(texts) ==
    /\ Idle
    /\ \E t \in texts :
          \E cursorPos \in Cursors(t) :
             \E order \in MapOrders(meta.Columns) :
                /\ call' = [op |-> "Complete", text |-> t, cursorPos |-> cursorPos,
                            order |-> order, self |-> self]
                /\ result' = Complete(self, t, cursorPos, order)
    /\ UNCHANGED <<meta, smart, keywordCasing>>

CompleteRepl == CompleteCall(ReplTexts(MaxKeys))

\* The caller takes the return value and is free to make its next call.
Return ==
    /\ ~Idle
    /\ ~Completing
    /\ ~Watching
    /\ call' = NoCall
    /\ result' = NoResult
    /\ UNCHANGED <<meta, smart, keywordCasing>>

Next == SetKeywordCasing \/ SetSmart \/ UpdateMetadata \/ CompleteRepl \/ Return

Spec == Init /\ [][Next]_vars

(***************************************************************************)
(* The context classifier on its own: analyzeContext applied to texts of   *)
(* four families (clause keywords, the keywords that look at the next      *)
(* token, dotted words and backslash commands, table references) and to    *)
(* the texts the repository's tests use.                                   *)
(***************************************************************************)
MaxClauseWords == 2
MaxCoreWords == 3
MaxDotPieces == 4
MaxRefWords == 4

ClauseWords == {"SELECT ", "FROM ", "JOIN ", "INNER ", "LEFT ", "RIGHT ", "CROSS ", "FULL ",
                "NATURAL ", "WHERE ", "ORDER ", "GROUP ", "BY ", "HAVING ", "INSERT ",
                "INTO ", "UPDATE ", "SET ", "ON ", "USING ", "CREATE ", "ALTER ", "DROP ",
                "users "}

\* The keywords whose flag depends on the token after them, with the keywords
\* they are most often typed among.
CoreWords == {"SELECT ", "FROM ", "JOIN ", "LEFT ", "ORDER ", "GROUP ", "BY ", "WHERE ",
              "users "}

DotPieces == {"users", "U", ".", " ", "\\d", "SELECT ", "'", "FROM t "}

RefWords == {"FROM ", "join ", "UPDATE ", "INTO ", "AS ", "Users ", "u ", "WHERE ", ", "}

TestTexts == {"SELECT * FROM users u JOIN orders o ON u.id = o.user_id",
              "SELECT * FROM USERS U JOIN ORDERS O ON U.ID = O.USER_ID",
              "SELECT * FROM users ORDER BY ",
              "SELECT * FROM users GROUP BY ",
              "SELECT * FROM users JOIN ",
              "SELECT users.",
              "a.b.",
              "\\dt"}

\* The statements the contract of the table references is worded with.
ContractTexts == {"FROM users, orders"}

CtxTexts(nClause, nCore, nDot, nRef) ==
    Typed(ClauseWords, nClause) \cup Typed(CoreWords, nCore) \cup Typed(DotPieces, nDot)
    \cup Typed(RefWords, nRef) \cup TestTexts \cup ContractTexts

Analyze ==
    /\ Idle
    /\ \E t \in CtxTexts(MaxClauseWords, MaxCoreWords, MaxDotPieces, MaxRefWords) :
          /\ call' = [op |-> "analyzeContext", text |-> t]
          /\ result' = analyzeContext(t)
    /\ UNCHANGED <<meta, smart, keywordCasing>>

InitCtx ==
    /\ meta = NewMetadata
    /\ smart = TRUE
    /\ keywordCasing = "auto"
    /\ call = NoCall
    /\ result = NoResult

NextCtx == Analyze \/ Return

SpecCtx == InitCtx /\ [][NextCtx]_vars

(***************************************************************************)
(* Properties of the context classifier (SpecCtx).                         *)
(***************************************************************************)
Analyzed == call.op = "analyzeContext"

\* The text starts, after leading white space, with a backslash.
IsBackslashText(t) == HasPrefix(TrimSpace(t), "\\")

FlagsSet(ctx) == {f \in ClauseFlags : ctx[f]}

\* Token i is a clause keyword in the sense of the classifier's contract.
Qualifies(toks, i) ==
    \/ toks[i] \in {"SELECT", "FROM", "JOIN", "WHERE", "HAVING", "INSERT", "INTO", "UPDATE",
                    "SET", "ON", "USING", "CREATE", "ALTER", "DROP"}
    \/ toks[i] \in {"ORDER", "GROUP"} /\ i < Len(toks) /\ toks[i + 1] = "BY"
    \/ toks[i] \in {"INNER", "LEFT", "RIGHT", "CROSS", "FULL", "NATURAL"}
       /\ i < Len(toks) /\ toks[i + 1] = "JOIN"

FlagOfKeyword ==
    [k \in {"SELECT", "FROM", "JOIN", "INNER", "LEFT", "RIGHT", "CROSS", "FULL", "NATURAL",
            "WHERE", "ORDER", "GROUP", "HAVING", "INSERT", "INTO", "UPDATE", "SET", "ON",
            "USING", "CREATE", "ALTER", "DROP"} |->
        CASE k = "SELECT" -> "InSelect"
          [] k = "FROM" -> "InFrom"
          [] k \in {"JOIN", "INNER", "LEFT", "RIGHT", "CROSS", "FULL", "NATURAL"} -> "InJoin"
          [] k = "WHERE" -> "InWhere"
          [] k = "ORDER" -> "InOrderBy"
          [] k = "GROUP" -> "InGroupBy"
          [] k = "HAVING" -> "InHaving"
          [] k \in {"INSERT", "INTO"} -> "InInsert"
          [] k = "UPDATE" -> "InUpdate"
          [] k = "SET" -> "InSet"
          [] k = "ON" -> "InOn"
          [] k = "USING" -> "InUsing"
          [] k = "CREATE" -> "InCreate"
          [] k = "ALTER" -> "InAlter"
          [] k = "DROP" -> "InDrop"]

QualifyingAt(toks) == {i \in 1..Len(toks) : Qualifies(toks, i)}

Max(S) == CHOOSE x \in S : \A y \in S : y <= x
Min(S) == CHOOSE x \in S : \A y \in S : x <= y

IsIdentChar(r) == IsLetter(r) \/ IsDigit(r) \/ r = "_" \/ r = "\\" \/ r = "#"

TrailingIdent(t) ==
    LET k == CHOOSE k \in 0..Len(t) :
                 /\ \A j \in (Len(t) - k + 1)..Len(t) : IsIdentChar(CharAt(t, j))
                 /\ k < Len(t) => ~IsIdentChar(CharAt(t, Len(t) - k))
    IN  SubSeq(t, Len(t) - k + 1, Len(t))

SegmentBeforeDot(t) == ToLower(TrailingIdent(SubSeq(t, 1, Len(t) - 1)))

\* C7 as stated: for every text ending in a dot, AfterDot is set and BeforeDot
\* is the lower-cased last dot-delimited segment of the word before that dot.
C7_Original ==
    (Analyzed /\ HasSuffix(call.text, ".")) =>
        result.AfterDot /\ result.BeforeDot = SegmentBeforeDot(call.text)

\* C7, amended: the same for every text ending in a dot that is not a backslash
\* command (its first non-blank character is not a backslash).
C7_BeforeDotIsLastSegment ==
    (Analyzed /\ HasSuffix(call.text, ".") /\ ~IsBackslashText(call.text)) =>
        result.AfterDot /\ result.BeforeDot = SegmentBeforeDot(call.text)

\* C7's case: a dotted, mixed-case word before the trailing dot.
C7_Witness ==
    /\ Analyzed
    /\ call.text = "users.U."
    /\ result.AfterDot
    /\ result.BeforeDot = "u"

\* The FROM/JOIN/UPDATE/INTO tokens that are followed by a non-keyword token.
RefSites(toks) ==
    {i \in 1..(Len(toks) - 1) :
        toks[i] \in {"FROM", "JOIN", "UPDATE", "INTO"} /\ ToUpper(toks[i + 1]) \notin allKeywordSet}

\* The k-th smallest element of a set of numbers.
Kth(S, k) == CHOOSE i \in S : Cardinality({j \in S : j <= i}) = k

ExampleJoin == "SELECT * FROM users u JOIN orders o ON u.id = o.user_id"

\* C10: the TableRefs of a statement are, in order of occurrence, one for each
\* FROM/JOIN/UPDATE/INTO token followed by a non-keyword token, named by that
\* token in lower case; every name and alias is lower-case; the example
\* statement gives exactly {users,u} then {orders,o}.
C10_OneRefPerSite ==
    (Analyzed /\ TrimSpace(call.text) /= "" /\ ~IsBackslashText(call.text)) =>
        LET toks == tokenize(TrimSpace(call.text))
            sites == RefSites(toks)
            refs == result.Tables
        IN  /\ Len(refs) = Cardinality(sites)
            /\ \A k \in 1..Len(refs) :
                  /\ refs[k].Name = ToLower(toks[Kth(sites, k) + 1])
                  /\ refs[k].Name = ToLower(refs[k].Name)
                  /\ refs[k].Alias = ToLower(refs[k].Alias)
            /\ call.text = ExampleJoin =>
                  refs = <<[Name |-> "users", Alias |-> "u"], [Name |-> "orders", Alias |-> "o"]>>

\* C10's case: the example statement, classified, with its two references.
C10_Witness ==
    /\ Analyzed
    /\ call.text = ExampleJoin
    /\ Len(result.Tables) = 2

(***************************************************************************)
(* Properties of the Completer's interface (Spec).                         *)
(***************************************************************************)
Completed == call.op = "Complete"

\* text[:cursorPos] as Complete takes it, for a cursor that does not panic.
TextBefore(t, cursorPos) == SubSeq(t, 1, IF cursorPos > Len(t) THEN Len(t) ELSE cursorPos)

\* A suggestion list as the set of its (text, type) pairs.
TextTypes(suggestions) ==
    {[Text |-> suggestions[i].Text, Type |-> suggestions[i].Type] : i \in 1..Len(suggestions)}

\* C2: what Complete returns in smart mode is, as a set of (text, type) pairs,
\* contained in what it returns for the same text, cursor and snapshot with
\* smart mode off.
C2_NonSmartIsSuperset ==
    (Completed /\ call.self.smart /\ ~result.panic) =>
        TextTypes(result.suggestions) \subseteq
            TextTypes(Complete([call.self EXCEPT !.smart = FALSE], call.text, call.cursorPos,
                               call.order).suggestions)

\* C3: Complete never panics, whatever the text and the cursor position, and a
\* cursor position past the end of the text gives what the end itself gives.
C3_CompleteIsTotal ==
    Completed =>
        /\ ~result.panic
        /\ call.cursorPos > Len(call.text) =>
              result = Complete(call.self, call.text, Len(call.text), call.order)

(***************************************************************************)
(* Complete in smart mode over texts that mix backslash commands, clauses, *)
(* table references with aliases and dotted words (SpecComplete).          *)
(***************************************************************************)
MaxSmartPieces == 3

SmartPieces == {"\\d", "SELECT ", "FROM users u ", "JOIN orders users ", "WHERE ", "u.",
                "Users.", "zz.", "us"}

SmartTexts(n) == Typed(SmartPieces, n)

CompleteSmart == CompleteCall(SmartTexts(MaxSmartPieces))

AnalyzeSmart ==
    /\ Idle
    /\ \E t \in SmartTexts(MaxSmartPieces) :
          /\ call' = [op |-> "analyzeContext", text |-> t]
          /\ result' = analyzeContext(t)
    /\ UNCHANGED <<meta, smart, keywordCasing>>

InitComplete ==
    /\ meta \in {MetaA, MetaB}
    /\ smart = TRUE
    /\ keywordCasing = "auto"
    /\ call = NoCall
    /\ result = NoResult

NextComplete == CompleteSmart \/ AnalyzeSmart \/ Return

SpecComplete == InitComplete /\ [][NextComplete]_vars

\* C5: for a text whose trimmed form starts with a backslash, analyzeContext
\* sets IsBackslash and nothing else, and Complete in smart mode returns only
\* suggestions of type special.
C5_BackslashOnlySpecials ==
    /\ (Analyzed /\ IsBackslashText(call.text)) =>
          /\ result.IsBackslash
          /\ FlagsSet(result) = {}
          /\ ~result.AfterDot
          /\ result.BeforeDot = ""
          /\ result.Tables = <<>>
    /\ (Completed /\ call.self.smart /\ ~result.panic
        /\ IsBackslashText(TextBefore(call.text, call.cursorPos))) =>
          \A i \in 1..Len(result.suggestions) : result.suggestions[i].Type = "special"

\* C5's case: a backslash command followed by a clause keyword and a partial
\* command name, completed to a special command.
C5_Witness ==
    /\ Completed
    /\ call.self.smart
    /\ call.text = "\\dSELECT \\d"
    /\ call.cursorPos = Len(call.text)
    /\ Len(result.suggestions) > 0

\* The table a trailing dot refers to: the identifier before the dot, resolved
\* against the statement's table references.
DotTable(t) ==
    resolveTableName(SegmentBeforeDot(t), extractTableRefs(tokenize(TrimSpace(t))))

\* C6: in smart mode, when the text before the cursor ends with a dot and is no
\* backslash command, every suggestion is a column of the table the identifier
\* before the dot resolves to, in whatever clause; when the snapshot has no such
\* table, the result is empty.
C6_DotGivesColumnsOfTable ==
    (Completed /\ call.self.smart /\ ~result.panic
     /\ HasSuffix(TextBefore(call.text, call.cursorPos), ".")
     /\ ~IsBackslashText(TextBefore(call.text, call.cursorPos))) =>
        LET table == DotTable(TextBefore(call.text, call.cursorPos))
            cols == call.self.meta.Columns
        IN  /\ \A i \in 1..Len(result.suggestions) :
                  /\ result.suggestions[i].Type = "column"
                  /\ result.suggestions[i].Description = table
                  /\ table \in DOMAIN cols
                  /\ result.suggestions[i].Text \in Range(cols[table])
            /\ table \notin DOMAIN cols => result.suggestions = <<>>

\* C6's case: a dot after an alias, inside a WHERE clause, completed to the
\* columns of the aliased table.
C6_Witness ==
    /\ Completed
    /\ call.self.smart
    /\ call.text = "FROM users u WHERE u."
    /\ call.cursorPos = Len(call.text)
    /\ TextTypes(result.suggestions) =
          {[Text |-> "id", Type |-> "column"], [Text |-> "name", Type |-> "column"]}

(***************************************************************************)
(* Dot-resolution on its own: resolveTableName applied to an identifier    *)
(* and a list of table references (SpecResolve).                           *)
(***************************************************************************)
MaxRefs == 2

RefNames == {"users", "orders", "u"}

TableRefs == [Name : RefNames, Alias : RefNames \cup {""}]

\* The lists of at most n table references.
RefLists(n) == UNION {[1..k -> TableRefs] : k \in 0..n}

Resolve ==
    /\ Idle
    /\ \E alias \in RefNames \cup {""} :
          \E refs \in RefLists(MaxRefs) :
             /\ call' = [op |-> "resolveTableName", alias |-> alias, refs |-> refs]
             /\ result' = resolveTableName(alias, refs)
    /\ UNCHANGED <<meta, smart, keywordCasing>>

NextResolve == Resolve \/ Return

SpecResolve == InitCtx /\ [][NextResolve]_vars

Resolved == call.op = "resolveTableName"

AliasMatches(x, refs) == {k \in 1..Len(refs) : refs[k].Alias = x}
NameMatches(x, refs) == {k \in 1..Len(refs) : refs[k].Name = x}

\* C8 as stated: an alias match anywhere in the list is preferred to a name
\* match; x itself when neither matches.
C8_Original ==
    Resolved =>
        LET a == AliasMatches(call.alias, call.refs)
            n == NameMatches(call.alias, call.refs)
        IN  result = IF a /= {} THEN call.refs[Min(a)].Name
                     ELSE IF n /= {} THEN call.refs[Min(n)].Name
                     ELSE call.alias

\* C8, amended: the TableRefs are scanned once, in order, and the first one
\* whose alias or name is x gives the table (so a name match on an earlier
\* TableRef wins over an alias match on a later one); x itself when neither an
\* alias nor a name matches.
C8_FirstRefMatchingAliasOrName ==
    Resolved =>
        LET m == AliasMatches(call.alias, call.refs) \cup NameMatches(call.alias, call.refs)
        IN  result = IF m /= {} THEN call.refs[Min(m)].Name ELSE call.alias

\* C8's case: x is the name of the first TableRef and the alias of a later one
\* of another table.
C8_Witness ==
    /\ Resolved
    /\ call.alias = "u"
    /\ call.refs = <<[Name |-> "u", Alias |-> "orders"], [Name |-> "users", Alias |-> "u"]>>
    /\ result = "u"

\* C9: when the identifier matches more than one TableRef, by alias or by name,
\* the table is the name of the first of them in scan order.
C9_FirstOfSeveralMatches ==
    Resolved =>
        \A i, j \in 1..Len(call.refs) :
           ( /\ i < j
             /\ call.alias \in {call.refs[i].Alias, call.refs[i].Name}
             /\ call.alias \in {call.refs[j].Alias, call.refs[j].Name}
             /\ \A k \in 1..(i - 1) : call.alias \notin {call.refs[k].Alias, call.refs[k].Name} )
           => result = call.refs[i].Name

\* C9's case: a repeated alias on two different tables.
C9_Witness ==
    /\ Resolved
    /\ call.alias = "u"
    /\ call.refs = <<[Name |-> "users", Alias |-> "u"], [Name |-> "orders", Alias |-> "u"]>>
    /\ result = "users"

(***************************************************************************)
(* Complete while a refresh replaces the snapshot (SpecConc). The REPL     *)
(* goroutine calls Complete(text, len(text)); `go RefreshCompletions()`    *)
(* builds a new Metadata and ends in UpdateMetadata, a plain store of the  *)
(* pointer c.meta with no lock. Complete does not load c.meta once: each   *)
(* helper it calls loads it again. A call in progress is the record        *)
(* [op |-> "Completing"]: plan is the helper calls still to make, acc the  *)
(* suggestions appended so far, cols the local s of columnSuggestions,     *)
(* order the key order the one range over the map took, updates the        *)
(* number of stores to c.meta since the call began.                        *)
(***************************************************************************)
MaxUpdates == 2
MaxConcPieces == 2

ConcPieces == {"SELECT ", "FROM users u ", "WHERE ", "u.", "\\d", "us", "INSERT ", "CREATE "}

ConcTexts(n) == Typed(ConcPieces, n)

\* One helper call: the helper's name and its argument besides word.
Helper(name, arg) == [name |-> name, arg |-> arg]

keywordList(arg) ==
    CASE arg = "selectKeywords" -> selectKeywords
      [] arg = "fromKeywords" -> fromKeywords
      [] arg = "whereKeywords" -> whereKeywords
      [] arg = "ddlKeywords" -> ddlKeywords
      [] arg = "allKeywords" -> allKeywords

\* The helper calls of allCompletions, in order.
allCompletionsPlan ==
    <<Helper("keywordSuggestions", "allKeywords"), Helper("tableSuggestions", ""),
      Helper("viewSuggestions", ""), Helper("columnSuggestionsAll", ""),
      Helper("functionSuggestions", ""), Helper("schemaSuggestions", ""),
      Helper("datatypeSuggestions", ""), Helper("specialSuggestions", ""),
      Helper("favoriteSuggestions", "")>>

\* columnSuggestions: one lookup in c.meta.Columns per table reference, then
\* the fall-back to columnSuggestionsAll when nothing was collected.
columnSuggestionsPlan(ctx) ==
    [i \in 1..Len(ctx.Tables) |-> Helper("columnsOf", ctx.Tables[i].Name)]
    \o <<Helper("columnsFallback", "")>>

\* The helper calls of contextCompletions' switch, in order.
clausePlan(ctx) ==
    IF ctx.InSelect
    THEN <<Helper("keywordSuggestions", "selectKeywords"), Helper("functionSuggestions", ""),
           Helper("tableSuggestions", "")>> \o columnSuggestionsPlan(ctx)
    ELSE IF ctx.InFrom \/ ctx.InJoin
    THEN <<Helper("keywordSuggestions", "fromKeywords"), Helper("tableSuggestions", ""),
           Helper("viewSuggestions", ""), Helper("schemaSuggestions", "")>>
    ELSE IF ctx.InWhere \/ ctx.InHaving \/ ctx.InOn
    THEN <<Helper("keywordSuggestions", "whereKeywords")>> \o columnSuggestionsPlan(ctx)
         \o <<Helper("functionSuggestions", "")>>
    ELSE IF ctx.InOrderBy \/ ctx.InGroupBy
    THEN columnSuggestionsPlan(ctx)
    ELSE IF ctx.InInsert
    THEN <<Helper("tableSuggestions", "")>> \o columnSuggestionsPlan(ctx)
    ELSE IF ctx.InUpdate
    THEN <<Helper("tableSuggestions", "")>>
    ELSE IF ctx.InSet
    THEN columnSuggestionsPlan(ctx)
    ELSE IF ctx.InCreate \/ ctx.InAlter \/ ctx.InDrop
    THEN <<Helper("keywordSuggestions", "ddlKeywords"), Helper("tableSuggestions", ""),
           Helper("schemaSuggestions", ""), Helper("datatypeSuggestions", "")>>
    ELSE allCompletionsPlan

contextCompletionsPlan(ctx) ==
    IF ctx.IsBackslash THEN <<Helper("specialSuggestions", "")>>
    ELSE IF ctx.AfterDot
    THEN <<Helper("dotCompletions", resolveTableName(ctx.BeforeDot, ctx.Tables))>>
    ELSE clausePlan(ctx)

\* What one helper call returns, c.meta being what the helper loads.
helperResult(c, h, word, order) ==
    CASE h.name = "keywordSuggestions" -> keywordSuggestions(c, word, keywordList(h.arg))
      [] h.name = "tableSuggestions" -> tableSuggestions(c, word)
      [] h.name = "viewSuggestions" -> viewSuggestions(c, word)
      [] h.name = "columnSuggestionsAll" -> columnSuggestionsAll(c, word, order)
      [] h.name = "functionSuggestions" -> functionSuggestions(c, word)
      [] h.name = "schemaSuggestions" -> schemaSuggestions(c, word)
      [] h.name = "datatypeSuggestions" -> datatypeSuggestions(c, word)
      [] h.name = "specialSuggestions" -> specialSuggestions(c, word)
      [] h.name = "favoriteSuggestions" -> favoriteSuggestions(c, word)
      [] h.name = "dotCompletions" -> columnsOf(c, h.arg, word)
      [] h.name = "columnsOf" -> columnsOf(c, h.arg, word)

\* Complete up to its call of allCompletions or contextCompletions; the REPL
\* passes len(text) as the cursor position.
Begin ==
    /\ Idle
    /\ \E t \in ConcTexts(MaxConcPieces) :
          LET textBefore == SubSeq(t, 1, Len(t))
              word == lastWord(textBefore)
              ctx == analyzeContext(textBefore)
          IN  call' = [op |-> "Completing", text |-> t, cursorPos |-> Len(t), self |-> self,
                       word |-> IF smart THEN smartWord(ctx, word) ELSE word,
                       plan |-> IF smart THEN contextCompletionsPlan(ctx)
                                ELSE allCompletionsPlan,
                       acc |-> <<>>, cols |-> <<>>, order |-> <<>>, updates |-> 0]
    /\ result' = NoResult
    /\ UNCHANGED <<meta, smart, keywordCasing>>

\* The next helper call of the call in progress, on the c.meta of this moment.
Step ==
    /\ Completing
    /\ call.plan /= <<>>
    /\ LET h == Head(call.plan)
           c == [call.self EXCEPT !.meta = meta]
           ranges == \/ h.name = "columnSuggestionsAll"
                     \/ h.name = "columnsFallback" /\ Len(call.cols) = 0
       IN  \E order \in (IF ranges THEN MapOrders(meta.Columns) ELSE {call.order}) :
              call' = [call EXCEPT
                         !.plan = Tail(@),
                         !.order = order,
                         !.cols = IF h.name = "columnsOf" THEN @ \o helperResult(c, h, call.word, order)
                                  ELSE <<>>,
                         !.acc = IF h.name = "columnsOf" THEN @
                                 ELSE IF h.name = "columnsFallback"
                                 THEN @ \o (IF Len(call.cols) = 0
                                            THEN columnSuggestionsAll(c, call.word, order)
                                            ELSE call.cols)
                                 ELSE @ \o helperResult(c, h, call.word, order)]
    /\ UNCHANGED <<meta, smart, keywordCasing, result>>

\* The call in progress returns what it has appended.
Finish ==
    /\ Completing
    /\ call.plan = <<>>
    /\ call' = [op |-> "Complete", text |-> call.text, cursorPos |-> call.cursorPos,
                order |-> call.order, self |-> call.self, updates |-> call.updates,
                new |-> meta]
    /\ result' = Returned(call.acc)
    /\ UNCHANGED <<meta, smart, keywordCasing>>

\* The refresh goroutine's UpdateMetadata(m), at any moment of the REPL
\* goroutine's work.
Refresh ==
    /\ \E m \in Snapshots \ {meta} : meta' = m
    /\ IF Completing
       THEN /\ call.updates < MaxUpdates
            /\ call' = [call EXCEPT !.updates = @ + 1]
       ELSE UNCHANGED call
    /\ UNCHANGED <<smart, keywordCasing, result>>

NextConc == Begin \/ Step \/ Finish \/ Refresh \/ Return

SpecConc == Init /\ [][NextConc]_vars

\* C1: a Complete call during which UpdateMetadata(new) ran once returns what
\* Complete returns on the old snapshot alone or on the new snapshot alone.
C1_SingleSnapshot ==
    (Completed /\ call.updates = 1) =>
        \E m \in {call.self.meta, call.new} :
           \E order \in MapOrders(m.Columns) :
              result = Complete([call.self EXCEPT !.meta = m], call.text, call.cursorPos, order)

(***************************************************************************)
(* Aliases of table references (SpecCtx).                                  *)
(***************************************************************************)
\* The text with every comma written as a word of its own, "@", so that the
\* words of the statement can be told from the commas between them.
RECURSIVE CommasMarked(_, _, _)
CommasMarked(t, lo, hi) ==
    IF lo > hi THEN ""
    ELSE IF lo = hi THEN (IF CharAt(t, lo) = "," THEN " @ " ELSE CharAt(t, lo))
    ELSE LET mid == (lo + hi) \div 2
         IN  CommasMarked(t, lo, mid) \o CommasMarked(t, mid + 1, hi)

\* The words of the statement, upper-cased, commas included as "@".
WordsAndCommas(t) == tokenize(CommasMarked(t, 1, Len(t)))

IsName(w) == w /= "@" /\ w \notin allKeywordSet

\* The alias the contract gives the table named at words[i + 1].
ContractAlias(words, i) ==
    IF i + 2 > Len(words) THEN ""
    ELSE IF words[i + 2] = "AS" /\ i + 3 <= Len(words) THEN ToLower(words[i + 3])
    ELSE IF IsName(words[i + 2]) THEN ToLower(words[i + 2])
    ELSE ""

\* C11: each table named after FROM/JOIN/UPDATE/INTO is referenced with the
\* alias the contract gives it: the identifier after AS, or the bare identifier
\* directly after the name, and no alias when a comma, a keyword or a clause
\* starter follows the name.
C11_AliasNotAcrossComma ==
    (Analyzed /\ TrimSpace(call.text) /= "" /\ ~IsBackslashText(call.text)) =>
        LET words == WordsAndCommas(TrimSpace(call.text))
        IN  \A i \in 1..(Len(words) - 1) :
               (words[i] \in {"FROM", "JOIN", "UPDATE", "INTO"} /\ IsName(words[i + 1])) =>
                  \E k \in 1..Len(result.Tables) :
                     result.Tables[k] = [Name |-> ToLower(words[i + 1]),
                                         Alias |-> ContractAlias(words, i)]

(***************************************************************************)
(* Columns offered in a clause (SpecComplete).                             *)
(***************************************************************************)
ColumnFlags == {"InSelect", "InWhere", "InHaving", "InOn", "InOrderBy", "InGroupBy",
                "InInsert", "InSet"}

\* The context of a finished smart call of Complete.
CallContext == analyzeContext(TextBefore(call.text, call.cursorPos))

\* A finished smart call whose text is neither a backslash command nor ends
\* in a dot.
SmartClauseCall ==
    /\ Completed
    /\ call.self.smart
    /\ ~result.panic
    /\ ~CallContext.IsBackslash
    /\ ~CallContext.AfterDot

\* C12: in a clause that suggests columns, when the statement references at
\* least one table, every column suggested is a column of a referenced table.
C12_ColumnsOfReferencedTables ==
    (/\ SmartClauseCall
     /\ FlagsSet(CallContext) \cap ColumnFlags /= {}
     /\ Len(CallContext.Tables) > 0) =>
        \A i \in 1..Len(result.suggestions) :
           result.suggestions[i].Type = "column" =>
              \E k \in 1..Len(CallContext.Tables) :
                 result.suggestions[i].Description = CallContext.Tables[k].Name

(***************************************************************************)
(* Complete in smart mode at the end of a text made of clause openings and *)
(* a word being typed, as the REPL calls it (SpecClause).                  *)
(***************************************************************************)
MaxOpenings == 2

ClauseOpenings == {"SELECT ", "FROM ", "JOIN ", "LEFT JOIN ", "WHERE ", "HAVING ", "ON ",
                   "ORDER BY ", "GROUP BY ", "INSERT ", "INTO ", "UPDATE ", "SET ",
                   "CREATE ", "ALTER ", "DROP ", "USING ", "FROM users u "}

TypedWords == {"", "u", "S"}

\* At most n clause openings, then the word being typed.
ClauseTexts(n) == {t \o w : t \in Typed(ClauseOpenings, n), w \in TypedWords}

\* Complete(text, len(text)), the call of the REPL's completer callback.
CompleteAtEnd ==
    /\ Idle
    /\ \E t \in ClauseTexts(MaxOpenings) :
          \E order \in MapOrders(meta.Columns) :
             /\ call' = [op |-> "Complete", text |-> t, cursorPos |-> Len(t),
                         order |-> order, self |-> self]
             /\ result' = Complete(self, t, Len(t), order)
    /\ UNCHANGED <<meta, smart, keywordCasing>>

NextClause == CompleteAtEnd \/ Return

SpecClause == InitComplete /\ [][NextClause]_vars

\* The suggestion types of a clause, in the order the contract lists them.
ClauseTypes(flag) ==
    CASE flag = "InSelect" -> <<"keyword", "function", "table", "column">>
      [] flag \in {"InFrom", "InJoin"} -> <<"keyword", "table", "view", "schema">>
      [] flag \in {"InWhere", "InHaving", "InOn"} -> <<"keyword", "column", "function">>
      [] flag \in {"InOrderBy", "InGroupBy", "InSet"} -> <<"column">>
      [] flag = "InInsert" -> <<"table", "column">>
      [] flag = "InUpdate" -> <<"table">>
      [] flag \in {"InCreate", "InAlter", "InDrop"} -> <<"keyword", "table", "schema", "datatype">>
      [] OTHER -> <<>>

\* The place of a type in a list of types, 0 when it is not in the list.
PlaceOf(type, types) ==
    IF \E p \in 1..Len(types) : types[p] = type
    THEN CHOOSE p \in 1..Len(types) : types[p] = type
    ELSE 0

\* C13: in smart mode, without trailing dot or backslash, the suggestions of a
\* call in one of the listed clauses have only the types of that clause, and
\* the types appear in the listed order, each as one contiguous block.
C13_ClauseTypesInOrder ==
    SmartClauseCall =>
        \A flag \in FlagsSet(CallContext) :
           LET types == ClauseTypes(flag)
               s == result.suggestions
           IN  types /= <<>> =>
                  /\ \A i \in 1..Len(s) : PlaceOf(s[i].Type, types) > 0
                  /\ \A i \in 1..(Len(s) - 1) :
                        PlaceOf(s[i].Type, types) <= PlaceOf(s[i + 1].Type, types)

\* C13's case: in a WHERE clause with a word typed, keywords, then columns,
\* then functions are returned.
C13_Witness ==
    /\ SmartClauseCall
    /\ call.text = "FROM users u WHERE u"
    /\ CallContext.InWhere
    /\ \E i, j, k \in 1..Len(result.suggestions) :
          /\ i < j /\ j < k
          /\ result.suggestions[i].Type = "keyword"
          /\ result.suggestions[j].Type = "column"
          /\ result.suggestions[k].Type = "function"

(***************************************************************************)
(* The union of every category (Spec).                                     *)
(***************************************************************************)
\* Some suggestion of the result has this text (compared without case when
\* it is a keyword) and this type.
Offered(text, type) ==
    \E i \in 1..Len(result.suggestions) :
       /\ result.suggestions[i].Type = type
       /\ IF type = "keyword" THEN ToUpper(result.suggestions[i].Text) = ToUpper(text)
          ELSE result.suggestions[i].Text = text

\* Every element of list that matches the word is offered under type.
AllOffered(list, word, type) ==
    \A i \in 1..Len(list) : fuzzyMatch(word, list[i]) => Offered(list[i], type)

\* The word Complete filters by in a finished call.
CallWord == lastWord(TextBefore(call.text, call.cursorPos))

\* A finished call with smart mode off, or in smart mode with no flag of the
\* context set.
UnfilteredCall ==
    /\ Completed
    /\ ~result.panic
    /\ \/ ~call.self.smart
       \/ /\ FlagsSet(CallContext) = {}
          /\ ~CallContext.IsBackslash
          /\ ~CallContext.AfterDot

\* C14: with smart mode off, or in smart mode with no context flag set, every
\* keyword, table, view, column, function, schema, database, datatype, special
\* command and favorite of the snapshot that matches the word is in the result.
C14_UnionOfEveryCategory ==
    UnfilteredCall =>
        LET m == call.self.meta
        IN  /\ AllOffered(allKeywords, CallWord, "keyword")
            /\ AllOffered(m.Tables, CallWord, "table")
            /\ AllOffered(m.Views, CallWord, "view")
            /\ \A t \in DOMAIN m.Columns : AllOffered(m.Columns[t], CallWord, "column")
            /\ \A i \in 1..Len(m.Functions) :
                  fuzzyMatch(CallWord, m.Functions[i]) => Offered(m.Functions[i] \o "()", "function")
            /\ AllOffered(m.Schemas, CallWord, "schema")
            /\ AllOffered(m.Databases, CallWord, "database")
            /\ AllOffered(m.Datatypes, CallWord, "datatype")
            /\ \A i \in 1..Len(m.Specials) :
                  fuzzyMatch(CallWord, m.Specials[i].Name) => Offered(m.Specials[i].Name, "special")
            /\ AllOffered(m.Favorites, CallWord, "favorite")

(***************************************************************************)
(* The fuzzy matcher on its own: fuzzyMatch and FuzzyScore applied to      *)
(* short strings over a small alphabet with both cases, and to the pairs   *)
(* the repository's tests use (SpecFuzzy).                                 *)
(***************************************************************************)
MaxInputLen == 3
MaxCandidateLen == 4

FuzzyLetters == {"a", "b", "B"}

TestPairs == {<<"use", "users">>, <<"ser", "users">>, <<"djmi", "django_migrations">>,
              <<"SEL", "select">>, <<"sel", "SELECT">>, <<"", "anything">>,
              <<"xyz", "abc">>, <<"us", "user_settings">>, <<"users", "users">>}

\* Pairs of an input of at most n letters and a candidate of at most m.
FuzzyPairs(n, m) ==
    (Typed(FuzzyLetters, n) \X Typed(FuzzyLetters, m)) \cup TestPairs

Match ==
    /\ Idle
    /\ \E p \in FuzzyPairs(MaxInputLen, MaxCandidateLen) :
          /\ call' = [op |-> "fuzzyMatch", input |-> p[1], candidate |-> p[2]]
          /\ result' = fuzzyMatch(p[1], p[2])
    /\ UNCHANGED <<meta, smart, keywordCasing>>

Score ==
    /\ Idle
    /\ \E p \in FuzzyPairs(MaxInputLen, MaxCandidateLen) :
          /\ call' = [op |-> "FuzzyScore", input |-> p[1], candidate |-> p[2]]
          /\ result' = FuzzyScore(p[1], p[2])
    /\ UNCHANGED <<meta, smart, keywordCasing>>

NextFuzzy == Match \/ Score \/ Return

SpecFuzzy == InitCtx /\ [][NextFuzzy]_vars

Matched == call.op = "fuzzyMatch"
Scored == call.op = "FuzzyScore"

\* a is an ordered, not necessarily contiguous, subsequence of b: a is empty,
\* or its last character is found in b after a place where the rest of a is
\* a subsequence of what comes before.
RECURSIVE IsSubsequence(_, _)
IsSubsequence(a, b) ==
    \/ a = ""
    \/ \E k \in 1..Len(b) :
          /\ CharAt(b, k) = CharAt(a, Len(a))
          /\ IsSubsequence(SubSeq(a, 1, Len(a) - 1), SubSeq(b, 1, k - 1))

\* C15: fuzzyMatch is true exactly when the input is empty or, case ignored,
\* an ordered subsequence of the candidate; so a prefix and a substring match,
\* and an input with a character the candidate lacks does not.
C15_MatchIsSubsequence ==
    Matched =>
        LET a == ToLower(call.input)
            b == ToLower(call.candidate)
        IN  /\ result = (call.input = "" \/ IsSubsequence(a, b))
            /\ (HasPrefix(b, a) \/ Contains(b, a)) => result
            /\ (\E i \in 1..Len(a) : CharAt(a, i) \notin CharSet(b)) => ~result

\* C15's case: a subsequence that is neither prefix nor substring matches.
C15_Witness ==
    /\ Matched
    /\ call.input = "djmi"
    /\ call.candidate = "django_migrations"
    /\ result = TRUE

\* C16: FuzzyScore is 0 exactly for strings equal without case, 1 exactly for
\* a proper prefix, 2 exactly for a substring that is no prefix, 3 exactly for
\* a subsequence that is no substring; a pair fuzzyMatch rejects gets none of
\* these ranks.
C16_ScoreRanksTheMatch ==
    Scored =>
        LET a == ToLower(call.input)
            b == ToLower(call.candidate)
        IN  /\ (result = 0) = (a = b)
            /\ (result = 1) = (a /= b /\ HasPrefix(b, a))
            /\ (result = 2) = (Contains(b, a) /\ ~HasPrefix(b, a))
            /\ (result = 3) = (IsSubsequence(a, b) /\ ~Contains(b, a))
            /\ ~fuzzyMatch(call.input, call.candidate) => result \notin {0, 1, 2, 3}

(***************************************************************************)
(* lastWord on its own (SpecWord). A text is typed character by character; *)
(* the Go string is the sequence of the bytes of its characters, and       *)
(* lastWord reads it byte by byte (rune(text[i])). A byte is written here  *)
(* as the character with the byte's value as code point, so the character  *)
(* e-acute, UTF-8 bytes C3 A9, is the two-element string EAcute.           *)
(***************************************************************************)
MaxChars == 3

EAcute == "Ã©"

TypedChars == {"a", "9", "_", ".", "\\", "#", " ", "\t", "*", EAcute}

TestWords == {"SELECT ", "SELECT * FROM us", "SELECT u.", "\\dt", "",
              "SELECT * FROM users WHERE id", "SELECT * FROM users WHERE "}

\* The characters of a text of one-byte characters.
CharsOf(t) == [i \in 1..Len(t) |-> CharAt(t, i)]

\* The character sequences lastWord is tried on: at most n typed characters,
\* and the texts of the tests.
WordInputs(n) ==
    UNION {[1..k -> TypedChars] : k \in 0..n} \cup {CharsOf(t) : t \in TestWords}

LastWord ==
    /\ Idle
    /\ \E chars \in WordInputs(MaxChars) :
          /\ call' = [op |-> "lastWord", chars |-> chars, text |-> Concat(chars)]
          /\ result' = lastWord(Concat(chars))
    /\ UNCHANGED <<meta, smart, keywordCasing>>

NextWord == LastWord \/ Return

SpecWord == InitCtx /\ [][NextWord]_vars

WordTaken == call.op = "lastWord"

\* A character that is alphanumeric, underscore, dot, backslash or '#'.
IsWordCharacter(ch) ==
    \/ ch \in LowerSet \cup UpperSet \cup DigitSet \cup {EAcute}
    \/ ch \in {"_", ".", "\\", "#"}

\* The maximal trailing run of word characters of a character sequence.
TrailingRun(chars) ==
    LET stops == {i \in 1..Len(chars) : ~IsWordCharacter(chars[i])}
        start == IF stops = {} THEN 1 ELSE Max(stops) + 1
    IN  Concat(SubSeq(chars, start, Len(chars)))

\* C17: lastWord is empty for an empty text and for a text that ends in white
\* space, and otherwise the maximal trailing run of alphanumeric characters,
\* underscores, dots, backslashes and '#'; it is always a suffix of the text.
C17_LastWordIsTrailingRun ==
    WordTaken =>
        /\ call.text = "" => result = ""
        /\ (call.chars /= <<>> /\ IsSpace(call.chars[Len(call.chars)])) => result = ""
        /\ result = TrailingRun(call.chars)
        /\ HasSuffix(call.text, result)


(***************************************************************************)
(* Keyword casing (Spec).                                                  *)
(***************************************************************************)
NoLowerCase(s) == \A i \in 1..Len(s) : CharAt(s, i) \notin LowerSet
NoUpperCase(s) == \A i \in 1..Len(s) : CharAt(s, i) \notin UpperSet

\* The word is made of upper-case letters only.
AllUpperCase(w) == \A i \in 1..Len(w) : CharAt(w, i) \in UpperSet

\* The keyword suggestions of the result.
KeywordTexts ==
    {result.suggestions[i].Text :
        i \in {j \in 1..Len(result.suggestions) : result.suggestions[j].Type = "keyword"}}

\* C18: every keyword suggestion of a finished Complete is cased by the
\* policy the latest SetKeywordCasing stored ("auto" when there was none):
\* upper-case under "upper", lower-case under "lower", and under "auto"
\* upper-case when the word typed is empty or all upper-case, lower-case
\* otherwise.
C18_KeywordsCasedByPolicy ==
    (Completed /\ ~result.panic) =>
       \A kw \in KeywordTexts :
          IF keywordCasing = "upper" THEN NoLowerCase(kw)
          ELSE IF keywordCasing = "lower" THEN NoUpperCase(kw)
          ELSE IF CallWord = "" \/ AllUpperCase(CallWord) THEN NoLowerCase(kw)
          ELSE NoUpperCase(kw)

\* C18's case: after SetKeywordCasing("lower"), Complete with the upper-case
\* word SEL offers select in lower case.
C18_Witness ==
    /\ Completed
    /\ ~result.panic
    /\ keywordCasing = "lower"
    /\ CallWord = "SEL"
    /\ "select" \in KeywordTexts


(***************************************************************************)
(* The lexer on its own (SpecLex).                                         *)
(***************************************************************************)
MaxLexChars == 3

LexChars == {"a", "B", "*", " ", "\n", ",", "(", ")", ";", "=", "<", ">", "!", "'", "\""}

TestTokenizeTexts == {"SELECT * FROM users WHERE id = 1",
                      "SELECT \"Column Name\" FROM 'table'"}

\* The character sequences tokenize is tried on: at most n typed characters,
\* and the texts of the tests.
LexInputs(n) ==
    UNION {[1..k -> LexChars] : k \in 0..n} \cup {CharsOf(t) : t \in TestTokenizeTexts}

Tokenize ==
    /\ Idle
    /\ \E chars \in LexInputs(MaxLexChars) :
          /\ call' = [op |-> "tokenize", chars |-> chars, text |-> Concat(chars)]
          /\ result' = tokenize(Concat(chars))
    /\ UNCHANGED <<meta, smart, keywordCasing>>

NextLex == Tokenize \/ Return

SpecLex == InitCtx /\ [][NextLex]_vars

Tokenized == call.op = "tokenize"

QuoteChars == {"'", "\""}
SeparatorChars == {" ", "\t", "\n", "\r", "\f", ",", "(", ")", ";"}
OperatorChars == {"=", "<", ">", "!"}

\* The quote that is open after the first i characters ("" when none is): a
\* quote opens a span, the next occurrence of the same quote closes it.
RECURSIVE OpenQuote(_, _)
OpenQuote(chars, i) ==
    IF i = 0 THEN ""
    ELSE LET q == OpenQuote(chars, i - 1)
         IN  IF q /= "" THEN (IF chars[i] = q THEN "" ELSE q)
             ELSE IF chars[i] \in QuoteChars THEN chars[i]
             ELSE ""

\* Character i belongs to a quoted span: it is the opening quote, the closing
\* quote or between the two (a span left open runs to the end of the input).
Quoted(chars, i) == OpenQuote(chars, i - 1) /= "" \/ OpenQuote(chars, i) /= ""

OperatorAt(chars, i) == ~Quoted(chars, i) /\ chars[i] \in OperatorChars

\* Character i is part of a word: quoted, or neither separator nor operator.
WordAt(chars, i) ==
    Quoted(chars, i) \/ chars[i] \notin (SeparatorChars \cup OperatorChars)

\* The positions where a token starts: each operator, and the first character
\* of each maximal run of word characters.
TokenStarts(chars) ==
    {i \in 1..Len(chars) :
        \/ OperatorAt(chars, i)
        \/ WordAt(chars, i) /\ (i = 1 \/ ~WordAt(chars, i - 1))}

\* The last character of the maximal run of word characters that starts at i.
RunEnd(chars, i) ==
    CHOOSE j \in i..Len(chars) :
       /\ \A k \in i..j : WordAt(chars, k)
       /\ j = Len(chars) \/ ~WordAt(chars, j + 1)

\* The token that starts at position i.
TokenAt(chars, i) ==
    IF OperatorAt(chars, i) THEN chars[i]
    ELSE ToUpper(Concat(SubSeq(chars, i, RunEnd(chars, i))))

\* C19: tokenize returns, in input order, one token per operator character
\* (the character itself) and one per maximal run of characters that are
\* neither separator nor operator (the run, upper-cased), a quoted span
\* counting as characters of a run: no token is empty, none stands for a
\* separator, and outside quoted spans none contains whitespace, comma,
\* parenthesis or ';'.
C19_TokensAreRunsAndOperators ==
    Tokenized =>
       LET chars == call.chars
           starts == TokenStarts(chars)
       IN  /\ Len(result) = Cardinality(starts)
           /\ \A i \in starts :
                 result[Cardinality({j \in starts : j <= i})] = TokenAt(chars, i)
           /\ \A k \in 1..Len(result) : result[k] /= ""
           /\ (\A i \in 1..Len(chars) : chars[i] \notin QuoteChars) =>
                 \A k \in 1..Len(result) :
                    \A p \in 1..Len(result[k]) :
                       CharAt(result[k], p) \notin SeparatorChars

\* C19's case: an operator typed inside a word ends the word and stands as a
\* token of its own, and the separator after it gives no token.
C19_Witness ==
    /\ Tokenized
    /\ call.text = "a=,"
    /\ result = <<"A", "=">>


(***************************************************************************)
(* Quoted spans (SpecLex).                                                 *)
(***************************************************************************)
\* Characters i..j are a quoted span: a quote at i that opens (none is open
\* before it) and the next occurrence of the same quote at j.
QuotedSpan(chars, i, j) ==
    /\ i < j
    /\ OpenQuote(chars, i - 1) = ""
    /\ chars[i] \in QuoteChars
    /\ chars[j] = chars[i]
    /\ \A k \in (i + 1)..(j - 1) : chars[k] /= chars[i]

\* C20: every quoted span of the input is a token of its own, from its
\* opening quote to its closing quote (letters compared without case, as
\* tokens are upper-cased): nothing inside splits it and nothing next to it
\* is joined to it.
C20_QuotedSpanIsOneToken ==
    Tokenized =>
       \A i, j \in 1..Len(call.chars) :
          QuotedSpan(call.chars, i, j) =>
             \E k \in 1..Len(result) :
                ToUpper(result[k]) = ToUpper(Concat(SubSeq(call.chars, i, j)))


(***************************************************************************)
(* Cosmetic spacing (SpecSpacing): tokenize on a text and on the same text *)
(* with one cosmetic change.                                               *)
(***************************************************************************)
MaxSpacedChars == 3

SpacedChars == {"a", " ", "\n", ",", "(", "=", "'"}

WhitespaceChars == {" ", "\t", "\n", "\r", "\f"}

SpacedInputs(n) == UNION {[1..k -> SpacedChars] : k \in 0..n}

\* Character p is a separator or an operator outside every quoted span.
BreakAt(chars, p) ==
    /\ p \in 1..Len(chars)
    /\ ~Quoted(chars, p)
    /\ chars[p] \in (SeparatorChars \cup OperatorChars)

\* chars with w put after its first g characters.
InsertAfter(chars, g, w) == SubSeq(chars, 1, g) \o <<w>> \o SubSeq(chars, g + 1, Len(chars))

\* chars without its character p.
RemoveAt(chars, p) == SubSeq(chars, 1, p - 1) \o SubSeq(chars, p + 1, Len(chars))

\* The texts one cosmetic change away from chars: a whitespace put next to a
\* separator or operator, a whitespace next to one taken away, a separator
\* replaced by another.
Respacings(chars) ==
    {InsertAfter(chars, g, w) :
        g \in {h \in 0..Len(chars) : BreakAt(chars, h) \/ BreakAt(chars, h + 1)},
        w \in {" ", "\n"}}
    \cup {RemoveAt(chars, p) :
            p \in {q \in 1..Len(chars) :
                     /\ BreakAt(chars, q)
                     /\ chars[q] \in WhitespaceChars
                     /\ BreakAt(chars, q - 1) \/ BreakAt(chars, q + 1)}}
    \cup {[chars EXCEPT ![p] = s] :
            p \in {q \in 1..Len(chars) : BreakAt(chars, q) /\ chars[q] \in SeparatorChars},
            s \in {" ", ",", ";", ")"}}

TokenizeBoth ==
    /\ Idle
    /\ \E chars \in SpacedInputs(MaxSpacedChars) :
          \E respaced \in Respacings(chars) :
             /\ call' = [op |-> "tokenizeBoth", chars |-> chars, respaced |-> respaced]
             /\ result' = [tokens |-> tokenize(Concat(chars)),
                           respaced |-> tokenize(Concat(respaced))]
    /\ UNCHANGED <<meta, smart, keywordCasing>>

NextSpacing == TokenizeBoth \/ Return

SpecSpacing == InitCtx /\ [][NextSpacing]_vars

TokenizedBoth == call.op = "tokenizeBoth"

\* C21: a whitespace put next to a separator or operator outside quoted
\* spans, a whitespace next to one taken away, or a separator replaced by
\* another, leaves the token sequence of tokenize unchanged.
C21_SpacingIsCosmetic ==
    TokenizedBoth => result.respaced = result.tokens

\* C21's case: a blank is put between a word and the operator after it, and
\* both texts give the same three tokens.
C21_Witness ==
    /\ TokenizedBoth
    /\ call.chars = <<"a", "=", "a">>
    /\ call.respaced = <<"a", " ", "=", "a">>
    /\ result.tokens = <<"A", "=", "A">>
    /\ result.respaced = <<"A", "=", "A">>


(***************************************************************************)
(* The metadata refresh (SpecRefresh). The provider answers each fetch     *)
(* with the content of the database or with an error.                      *)
(***************************************************************************)
\* What the provider serves when no fetch fails.
ServedDatabases == {MetaA, MetaB}

\* The fetches that can return an error: the four categories, and Columns of
\* each table (named by the table).
Fetches(db) ==
    {"Tables", "Schemas", "Functions", "Databases"}
    \cup {db.Tables[i] : i \in 1..Len(db.Tables)}

\* The snapshot RefreshCompletions builds from NewMetadata() when the fetches
\* in failed return an error: a failed category stays as NewMetadata() made
\* it, Columns are fetched for the tables that were fetched, Views are not
\* fetched at all.
refreshedMetadata(db, failed) ==
    LET tables == IF "Tables" \in failed THEN <<>> ELSE db.Tables
        withCols == {tables[i] : i \in 1..Len(tables)} \ failed
    IN  [NewMetadata EXCEPT
           !.Tables = tables,
           !.Schemas = IF "Schemas" \in failed THEN <<>> ELSE db.Schemas,
           !.Functions = IF "Functions" \in failed THEN <<>> ELSE db.Functions,
           !.Databases = IF "Databases" \in failed THEN <<>> ELSE db.Databases,
           !.Datatypes = db.Datatypes,
           !.Columns = IF withCols = {} THEN <<>> ELSE [t \in withCols |-> db.Columns[t]],
           !.Specials = db.Specials,
           !.Favorites = db.Favorites]

\* One run of App.RefreshCompletions, which ends with UpdateMetadata(meta).
RefreshCompletions ==
    /\ Idle
    /\ \E db \in ServedDatabases :
          \E failed \in SUBSET Fetches(db) :
             /\ meta' = refreshedMetadata(db, failed)
             /\ call' = [op |-> "RefreshCompletions", db |-> db, failed |-> failed,
                         previous |-> meta]
    /\ result' = NoResult
    /\ UNCHANGED <<smart, keywordCasing>>

NextRefresh == RefreshCompletions \/ Return

SpecRefresh == InitCtx /\ [][NextRefresh]_vars

Refreshed == call.op = "RefreshCompletions"

\* C22: after a refresh in which a fetch returned an error, the completer
\* still holds the snapshot it held before the refresh.
C22_FailedRefreshKeepsSnapshot ==
    (Refreshed /\ call.failed /= {}) => meta = call.previous


(***************************************************************************)
(* Frame of the Completer's operations (Spec).                             *)
(***************************************************************************)
\* The suggestion is made of an element of snapshot m (keywords are built in).
DrawnFrom(m, s) ==
    CASE s.Type = "keyword" -> TRUE
      [] s.Type = "table" -> s.Text \in Range(m.Tables)
      [] s.Type = "view" -> s.Text \in Range(m.Views)
      [] s.Type = "column" -> \E t \in DOMAIN m.Columns : s.Text \in Range(m.Columns[t])
      [] s.Type = "function" -> \E f \in Range(m.Functions) : s.Text = f \o "()"
      [] s.Type = "schema" -> s.Text \in Range(m.Schemas)
      [] s.Type = "datatype" -> s.Text \in Range(m.Datatypes)
      [] s.Type = "special" -> \E sp \in Range(m.Specials) : s.Text = sp.Name
      [] s.Type = "favorite" -> s.Text \in Range(m.Favorites)
      [] OTHER -> FALSE

\* What one operation of the Completer does to its three fields.
FrameStep ==
    /\ call'.op = "Complete" =>
          /\ UNCHANGED <<meta, smart, keywordCasing>>
          /\ call'.self = self
          /\ ~result'.panic =>
                \A i \in 1..Len(result'.suggestions) : DrawnFrom(meta, result'.suggestions[i])
    /\ call'.op = "SetSmart" =>
          smart' = call'.smart /\ UNCHANGED <<meta, keywordCasing>>
    /\ call'.op = "SetKeywordCasing" =>
          keywordCasing' = call'.casing /\ UNCHANGED <<meta, smart>>
    /\ call'.op = "UpdateMetadata" =>
          meta' = call'.meta /\ UNCHANGED <<smart, keywordCasing>>

\* C23: Complete leaves the snapshot, the smart flag and the casing policy as
\* they are and makes its suggestions of the snapshot in place, which is the
\* one of the latest UpdateMetadata; SetSmart, SetKeywordCasing and
\* UpdateMetadata each store their argument in their own field and leave the
\* two other fields alone.
C23_OperationsKeepTheirFrame == [][FrameStep]_vars

\* C23's case: a Complete on the snapshot an UpdateMetadata installed offers a
\* table of that snapshot.
C23_Witness ==
    /\ Completed
    /\ ~result.panic
    /\ meta = MetaB
    /\ call.self.meta = MetaB
    /\ \E i \in 1..Len(result.suggestions) :
          result.suggestions[i].Type = "table" /\ result.suggestions[i].Text = "products"


(***************************************************************************)
(* Determinism of Complete (Spec).                                         *)
(***************************************************************************)
\* C24: a finished Complete returns what every other call with the same
\* text, cursor position, snapshot, smart flag and casing policy returns, in
\* the same order, whatever order the range over the Columns map takes.
C24_CompleteIsDeterministic ==
    Completed =>
       \A order \in MapOrders(call.self.meta.Columns) :
          Complete(call.self, call.text, call.cursorPos, order) = result


(***************************************************************************)
(* The deployment watcher (SpecWatch). A call of Watch in progress is the  *)
(* record call: the locals of Watch (polls, lastStatus, the place in its   *)
(* loop), whether ctx is done and after how many polls it became so, what  *)
(* the provider answered so far and the status lines written to           *)
(* cfg.Writer.                                                             *)
(***************************************************************************)
MaxPolls == 3

\* Status.String() of the eight Status values; UNKNOWN is the zero value.
Statuses == {"UNKNOWN", "PENDING", "BUILDING", "DEPLOYING",
             "SUCCEEDED", "FAILED", "CANCELLED", "CRASHED"}

\* Terminal that takes only a success for final.
Terminal_SuccessOnly(s) == s = "SUCCEEDED"

Terminal(s) == s \in {"SUCCEEDED", "FAILED", "CANCELLED", "CRASHED"}

\* What a fetch returns: an error, or a deployment in some status.
ProviderError == [err |-> TRUE, ID |-> "", Status |-> "UNKNOWN"]
Answers(id) ==
    {ProviderError}
    \cup {[err |-> FALSE, ID |-> IF id = "" THEN "latest" ELSE id, Status |-> s] : s \in Statuses}

\* The two returns of Watch.
WatchResult(d, polls) == [nil |-> FALSE, Deployment |-> d, Polls |-> polls, err |-> ""]
timedOut ==
    [nil |-> TRUE, Deployment |-> ProviderError, Polls |-> 0,
     err |-> "timed out after Timeout waiting for deployment"]

\* Watch(ctx, provider, cfg) up to its loop; ctx may be cancelled already.
StartWatch ==
    /\ Idle
    /\ \E done \in BOOLEAN, id \in {"", "specific-123"} :
          call' = [op |-> "Watching", pc |-> "fetch", DeploymentID |-> id, done |-> done,
                   doneAt |-> IF done THEN 0 ELSE -1,
                   polls |-> 0, lastStatus |-> "UNKNOWN", served |-> <<>>, out |-> <<>>]
    /\ result' = NoResult
    /\ UNCHANGED <<meta, smart, keywordCasing>>

\* ctx becomes done: the caller cancels it or cfg.Timeout elapses.
Expire ==
    /\ Watching
    /\ ~call.done
    /\ call' = [call EXCEPT !.done = TRUE, !.doneAt = call.polls]
    /\ UNCHANGED <<meta, smart, keywordCasing, result>>

\* The loop body with every provider error taken for the end of the context.
Poll_ErrorEndsWatch ==
    /\ Watching
    /\ call.pc = "fetch"
    /\ \E d \in Answers(call.DeploymentID) :
          LET polled == [call EXCEPT !.polls = @ + 1, !.served = Append(@, d)]
              noted == IF d.Status /= call.lastStatus
                       THEN [polled EXCEPT !.out = Append(@, d.Status), !.lastStatus = d.Status]
                       ELSE polled
          IN  IF d.err
              THEN /\ call' = [polled EXCEPT !.op = "Watch"]
                   /\ result' = timedOut
              ELSE IF Terminal(d.Status)
                   THEN /\ call' = [noted EXCEPT !.op = "Watch"]
                        /\ result' = WatchResult(d, noted.polls)
                   ELSE /\ call' = [noted EXCEPT !.pc = "wait"]
                        /\ UNCHANGED result
    /\ UNCHANGED <<meta, smart, keywordCasing>>

\* d, err := fetch() and the loop body down to the label wait.
Poll ==
    /\ Watching
    /\ call.pc = "fetch"
    /\ \E d \in Answers(call.DeploymentID) :
          LET polled == [call EXCEPT !.polls = @ + 1, !.served = Append(@, d)]
              noted == IF d.Status /= call.lastStatus
                       THEN [polled EXCEPT !.out = Append(@, d.Status), !.lastStatus = d.Status]
                       ELSE polled
          IN  IF d.err
              THEN IF call.done
                   THEN /\ call' = [polled EXCEPT !.op = "Watch"]
                        /\ result' = timedOut
                   ELSE /\ call' = [polled EXCEPT !.out = Append(@, "error"), !.pc = "wait"]
                        /\ UNCHANGED result
              ELSE IF Terminal(d.Status)
                   THEN /\ call' = [noted EXCEPT !.op = "Watch"]
                        /\ result' = WatchResult(d, noted.polls)
                   ELSE /\ call' = [noted EXCEPT !.pc = "wait"]
                        /\ UNCHANGED result
    /\ UNCHANGED <<meta, smart, keywordCasing>>

\* select: case <-ticker.C
Tick ==
    /\ Watching
    /\ call.pc = "wait"
    /\ call.polls < MaxPolls
    /\ call' = [call EXCEPT !.pc = "fetch"]
    /\ UNCHANGED <<meta, smart, keywordCasing, result>>

\* A select whose ctx.Done() case goes round the loop instead of returning.
WaitDone_GoesRound ==
    /\ Watching
    /\ call.pc = "wait"
    /\ call.done
    /\ call.polls < MaxPolls
    /\ call' = [call EXCEPT !.pc = "fetch"]
    /\ UNCHANGED <<meta, smart, keywordCasing, result>>

\* select: case <-ctx.Done()
WaitDone ==
    /\ Watching
    /\ call.pc = "wait"
    /\ call.done
    /\ call' = [call EXCEPT !.op = "Watch"]
    /\ result' = timedOut
    /\ UNCHANGED <<meta, smart, keywordCasing>>

NextWatch == StartWatch \/ Expire \/ Poll \/ Tick \/ WaitDone \/ Return

SpecWatch == InitCtx /\ [][NextWatch]_vars

\* The timeout elapses, a fetch returns, the ticker fires, and a select that
\* is offered ctx.Done() again and again takes it.
SpecWatchLive ==
    SpecWatch /\ WF_vars(Expire) /\ WF_vars(Poll) /\ WF_vars(Tick) /\ SF_vars(WaitDone)

Watched == call.op = "Watch"


\* The four final statuses of a deployment.
FinalStatuses == {"SUCCEEDED", "FAILED", "CANCELLED", "CRASHED"}

\* The fetch answered with a deployment in a final status.
FinalAnswer(d) == ~d.err /\ d.Status \in FinalStatuses

\* C25: Watch returns a result with nil error only when its most recent poll
\* returned a deployment in a final status (SUCCEEDED, FAILED, CANCELLED or
\* CRASHED); the result carries that deployment, its Polls is the number of
\* fetches the provider served, and no fetch is made once one has returned a
\* final status.
C25_ResultIsTheTerminalPoll ==
    (Watching \/ Watched) =>
       LET n == Len(call.served)
       IN  /\ \A i \in 1..(n - 1) : ~FinalAnswer(call.served[i])
           /\ (Watched /\ result.err = "") =>
                 /\ ~result.nil
                 /\ n > 0
                 /\ FinalAnswer(call.served[n])
                 /\ result.Deployment = call.served[n]
                 /\ result.Polls = n
           /\ (Watching /\ n > 0) => ~FinalAnswer(call.served[n])

\* C25's case: the deployment is pending at the first poll and cancelled at
\* the second, and Watch returns it with Polls = 2.
C25_Witness ==
    /\ Watched
    /\ result.err = ""
    /\ Len(call.served) = 2
    /\ call.served[1].Status = "PENDING"
    /\ result.Deployment.Status = "CANCELLED"
    /\ result.Polls = 2


\* Some fetch so far answered with a deployment in a final status.
FinalSeen == \E i \in 1..Len(call.served) : FinalAnswer(call.served[i])

\* The return of Watch for a context that is done: no result, and an error
\* that says "timed out".
ReturnedTimedOut ==
    /\ result.nil
    /\ Contains(result.err, "timed out")

\* C26 as amended: every call of Watch returns; it returns an error only when
\* the context is done, the error says "timed out" and comes with a nil
\* result; and when the context is done and no poll has returned a final
\* status, that is how it returns.
C26_WatchTerminates ==
    /\ Watching ~> Watched
    /\ [](Watched =>
            /\ result.err /= "" => (call.done /\ ~FinalSeen /\ ReturnedTimedOut)
            /\ (call.done /\ ~FinalSeen) => ReturnedTimedOut)

\* C26's case: the context is cancelled at the call, the one poll finds the
\* deployment building, and Watch returns the "timed out" error.
C26_Witness ==
    /\ Watched
    /\ call.doneAt = 0
    /\ call.polls = 1
    /\ call.served[1].Status = "BUILDING"
    /\ ReturnedTimedOut

\* C26 as stated: every call of Watch returns, and when the context was done
\* before the poll that observed a final status (or no poll observed one),
\* Watch returns a nil result and the "timed out" error.
C26_Original ==
    /\ Watching ~> Watched
    /\ [](Watched =>
            ((call.done /\ (~FinalSeen \/ call.doneAt < call.polls)) => ReturnedTimedOut))


\* A fetch is made in this step and it returns an error while ctx is live.
LiveErrorStep ==
    /\ Watching
    /\ ~call.done
    /\ call'.op \in {"Watching", "Watch"}
    /\ Len(call'.served) = Len(call.served) + 1
    /\ call'.served[Len(call'.served)].err

\* Watch waits for the ticker with ctx live.
WaitingLive == Watching /\ call.pc = "wait" /\ ~call.done

\* C27: a fetch that fails while the context is live does not end Watch: the
\* step writes an "error" status line and leaves Watch waiting for the
\* ticker; a Watch that waits with a live context polls again unless the
\* context ends first; and a final status returned by a later poll is
\* returned as a result with nil error.
C27_TransientErrorsArePolledOver ==
    /\ [][LiveErrorStep =>
             /\ call'.op = "Watching"
             /\ call'.pc = "wait"
             /\ call'.out = Append(call.out, "error")
             /\ result' = result]_vars
    /\ WaitingLive ~> ((Watching \/ Watched) /\ (call.pc = "fetch" \/ call.done))
    /\ [](\A n \in 1..MaxPolls :
             (Watched /\ Len(call.served) = n /\ FinalAnswer(call.served[n])) =>
                /\ result.err = ""
                /\ result.Deployment = call.served[n])

\* C27's case: the first fetch fails with the context live, the second finds
\* the deployment succeeded, and Watch returns it after the "error" line.
C27_Witness ==
    /\ Watched
    /\ ~call.done
    /\ Len(call.served) = 2
    /\ call.served[1].err
    /\ call.out = <<"error", "SUCCEEDED">>
    /\ result.err = ""
    /\ result.Deployment.Status = "SUCCEEDED"
    /\ result.Polls = 2


(***************************************************************************)
(* The filter word (SpecFilter): Complete in both modes on texts that end  *)
(* in a word, in a dot, or in a word typed after a dot.                    *)
(***************************************************************************)
FilterTexts == {"n", "S", "SELECT co", "SELECT * FROM us", "WHERE id = s",
                "users.", "users.n", "FROM users u WHERE u.", "FROM users u WHERE u.na",
                "\\d", "\\d."}

CompleteFiltered == CompleteCall(FilterTexts)

NextFilter == CompleteFiltered \/ Return

SpecFilter == Init /\ [][NextFilter]_vars

\* The part of the word after its last dot (the word itself when it has none).
AfterLastDot(w) ==
    LET dots == {i \in 1..Len(w) : CharAt(w, i) = "."}
    IN  IF dots = {} THEN w
        ELSE SubSeq(w, (CHOOSE i \in dots : \A j \in dots : j <= i) + 1, Len(w))

\* The word the claims take for the filter of a finished call: lastWord of
\* the text before the cursor, cut after its last dot in after-dot context.
FilterWord ==
    IF call.self.smart /\ CallContext.AfterDot THEN AfterLastDot(CallWord) ELSE CallWord

\* C28: every suggestion a Complete returns, in smart mode or not, matches
\* the filter word by fuzzyMatch; so does the text of a function suggestion,
\* which has "()" appended.
C28_SuggestionsMatchTheWord ==
    (Completed /\ ~result.panic) =>
       \A i \in 1..Len(result.suggestions) :
          fuzzyMatch(FilterWord, result.suggestions[i].Text)

\* C28's case: with smart mode off and the word n typed, the function now is
\* offered as now() and the function sum, which does not match, is not.
C28_Witness ==
    /\ Completed
    /\ ~call.self.smart
    /\ call.self.meta.Functions = <<"count", "now">>
    /\ CallWord = "n"
    /\ \E i \in 1..Len(result.suggestions) :
          result.suggestions[i].Type = "function" /\ result.suggestions[i].Text = "now()"
    /\ \A i \in 1..Len(result.suggestions) : fuzzyMatch("n", result.suggestions[i].Text)


(***************************************************************************)
(* The filter word after a dot (SpecFilter).                               *)
(***************************************************************************)
\* Every column of the table the word before the dot resolves to, in the
\* order of the snapshot; nothing when the snapshot has no such table.
ColumnsOfResolved(c, ctx) ==
    LET tableName == resolveTableName(ctx.BeforeDot, ctx.Tables)
    IN  IF tableName \in DOMAIN c.meta.Columns
        THEN [i \in 1..Len(c.meta.Columns[tableName]) |->
                 Suggestion(c.meta.Columns[tableName][i], "column", tableName)]
        ELSE <<>>

\* The word of the call has a dot with something typed after it.
TypedAfterDot ==
    /\ Contains(CallWord, ".")
    /\ AfterLastDot(CallWord) /= ""

\* C30: in smart mode, the context is after-dot only when the trimmed text
\* before the cursor ends with a dot; the filter word is then empty and
\* Complete returns every column of the resolved table; once a character is
\* typed after the dot the context is not after-dot and Complete filters by
\* the whole dotted word.
C30_AfterDotFilterIsEmpty ==
    (Completed /\ ~result.panic /\ call.self.smart) =>
       /\ CallContext.AfterDot =>
             /\ HasSuffix(TrimSpace(TextBefore(call.text, call.cursorPos)), ".")
             /\ FilterWord = ""
             /\ result.suggestions = ColumnsOfResolved(call.self, CallContext)
       /\ TypedAfterDot =>
             /\ ~CallContext.AfterDot
             /\ result.suggestions =
                   contextCompletions(call.self, CallContext, CallWord, call.order)
             /\ \A i \in 1..Len(result.suggestions) :
                   fuzzyMatch(CallWord, result.suggestions[i].Text)

\* C30's case: with the cursor right after the dot of users.n, both columns
\* of users are offered, whatever follows the cursor.
C30_Witness ==
    /\ Completed
    /\ call.self.smart
    /\ call.self.meta = MetaA
    /\ call.text = "users.n"
    /\ call.cursorPos = 6
    /\ CallContext.AfterDot
    /\ Len(result.suggestions) = 2
    /\ result.suggestions[1].Text = "id"
    /\ result.suggestions[2].Text = "name"


(***************************************************************************)
(* Keywords inside quotes (SpecQuote): analyzeContext on texts in which    *)
(* quotes open and close around keywords and names.                        *)
(***************************************************************************)
MaxQuotePieces == 4

QuotePieces == {"'", "\"", "FROM ", "users ", "WHERE ", "UPDATE "}

AnalyzeQuoted ==
    /\ Idle
    /\ \E t \in Typed(QuotePieces, MaxQuotePieces) :
          /\ call' = [op |-> "analyzeContext", text |-> t]
          /\ result' = analyzeContext(t)
    /\ UNCHANGED <<meta, smart, keywordCasing>>

SpecQuote == InitCtx /\ [][AnalyzeQuoted \/ Return]_vars

\* The text with every letter inside a quoted span (terminated or dangling)
\* replaced by x, so that no quoted span holds a keyword; q is the quote open
\* at the start of t ("" for none).
RECURSIVE BlankQuoted(_, _)
BlankQuoted(t, q) ==
    IF t = "" THEN ""
    ELSE LET c == Head(t)
         IN  IF q /= ""
             THEN IF c = q THEN c \o BlankQuoted(Tail(t), "")
                  ELSE (IF IsLetter(c) THEN "x" ELSE c) \o BlankQuoted(Tail(t), q)
             ELSE IF c \in QuoteChars THEN c \o BlankQuoted(Tail(t), c)
             ELSE c \o BlankQuoted(Tail(t), "")

\* The table references with the letters inside quotes blanked.
BlankRefs(refs) ==
    [i \in 1..Len(refs) |->
        [Name |-> BlankQuoted(refs[i].Name, ""), Alias |-> BlankQuoted(refs[i].Alias, "")]]

\* Some quoted span of the text holds a keyword.
KeywordInQuotes(t) == ToUpper(BlankQuoted(t, "")) /= ToUpper(t)

\* C29: a keyword inside a single- or double-quoted span, terminated or
\* dangling, sets no clause flag and makes no table reference: analyzeContext
\* gives the clause flags and the table references it gives for the text
\* whose quoted spans hold no keyword.
C29_QuotedKeywordsAreOpaque ==
    Analyzed =>
       LET blank == analyzeContext(BlankQuoted(call.text, ""))
       IN  /\ FlagsSet(result) = FlagsSet(blank)
           /\ BlankRefs(result.Tables) = blank.Tables

\* C29's case: FROM stands between quotes after a name, and the context has
\* no clause flag and no table reference.
C29_Witness ==
    /\ Analyzed
    /\ call.text = "users 'FROM '"
    /\ KeywordInQuotes(call.text)
    /\ FlagsSet(result) = {}
    /\ result.Tables = <<>>

====
